---------------------------- MODULE Spec2Model ----------------------------
(***************************************************************************)
(* Verification model of @quvel-kit/tenancy (ItsIrv/quvel-ui-tenancy):     *)
(* the visibility filter (utils), the tenant cache (TenantCacheService),   *)
(* the tenant resolver (TenantResolver) and the SSR request hooks          *)
(* (TenantRequestHooks).                                                   *)
(*                                                                         *)
(* JavaScript values are modelled as tagged records so that objects,       *)
(* strings, null, undefined and arrays stay distinguishable:               *)
(*   Obj(f)  a plain object, f a function from its own keys to values      *)
(*   Str(s)  a string;  Null;  Undef;  List(s)  an array;  Bool(b)         *)
(***************************************************************************)
EXTENDS Integers, Sequences, FiniteSets, TLC

VARIABLES
    flt,              \* harness of the visibility filter: inputs and result
    mode,             \* TenantCacheService.mode
    cache,            \* TenantCacheService.cache : key -> CacheEntry
    cleanupInterval,  \* TenantCacheService.cleanupInterval (0 = undefined)
    timers,           \* interval timers the runtime still holds active
    now,              \* Date.now(), in units of ttl granularity
    init,             \* progress of TenantCacheService.initialize / preloadTenants
    last,             \* the latest call a client made on the cache, and its result
    cfg,              \* TenantRequestHooks.config and the HTTP client's baseURL
    boot,             \* progress of TenantRequestHooks.boot; the registered hook
    reqs,             \* the SSR requests in flight: their position in enrichWindowBag
    done,             \* the request whose enrichWindowBag completed latest
    mrg,              \* harness of the merge stage: inputs and result
    ext,              \* harness of TenantResolver.extractIdentifier: inputs and result
    hp                \* the merge stage on a heap: the objects, the cached record

vars == <<flt, mode, cache, cleanupInterval, timers, now, init, last,
          cfg, boot, reqs, done, mrg, ext, hp>>

cacheVars == <<mode, cache, cleanupInterval, timers, now, init, last>>
hookVars == <<cfg, boot, reqs, done>>

-----------------------------------------------------------------------------
(* JavaScript values *)

Obj(f) == [t |-> "obj", f |-> f]
Str(s) == [t |-> "str", v |-> s]
Bool(b) == [t |-> "bool", v |-> b]
Num(n) == [t |-> "num", v |-> n]
Null == [t |-> "null"]
Undef == [t |-> "undef"]
List(items) == [t |-> "arr", items |-> items]
Arr == List(<<>>)
EmptyObj == Obj(<<>>)

\* typeof x === 'object' && x !== null && !Array.isArray(x)
IsPlainObject(x) == x.t = "obj"

\* JavaScript truthiness of a value
Truthy(x) ==
    CASE x.t = "obj" -> TRUE
      [] x.t = "arr" -> TRUE
      [] x.t = "str" -> x.v # ""
      [] x.t = "bool" -> x.v
      [] x.t = "num" -> x.v # 0
      [] OTHER -> FALSE

\* o[k] for an object o: undefined when the key is absent
Get(o, k) == IF o.t = "obj" /\ k \in DOMAIN o.f THEN o.f[k] ELSE Undef

\* Object.keys(o)
Keys(o) == IF o.t = "obj" THEN DOMAIN o.f ELSE {}

\* o[k] = v on an object o
SetProp(o, k, v) == Obj([x \in DOMAIN o.f \cup {k} |-> IF x = k THEN v ELSE o.f[x]])

\* const { k, ...rest } = o
Omit(o, k) == Obj([x \in DOMAIN o.f \ {k} |-> o.f[x]])

\* x ?? null
OrNull(x) == IF x.t \in {"undef", "null"} THEN Null ELSE x

-----------------------------------------------------------------------------
(* utils: filterConfigByVisibility / filterPublicConfig *)

\* String.prototype.toLowerCase on the labels the model uses
ToLowerCase(s) ==
    CASE s = "PUBLIC" -> "public"
      [] s = "Protected" -> "protected"
      [] OTHER -> s

\* levels[label]: 0 stands for undefined (a label the table does not hold)
Level(label) ==
    CASE label = Str("public") -> 3
      [] label = Str("protected") -> 2
      [] label = Str("private") -> 1
      [] OTHER -> 0

\* a variant that asks for a level strictly above the minimum
isVisibilityAllowedAbove(fieldVisibility, minVisibility) ==
    /\ Level(fieldVisibility) # 0
    /\ Level(minVisibility) # 0
    /\ Level(fieldVisibility) > Level(minVisibility)

\* levels[fieldVisibility] >= levels[minVisibility]; undefined >= n is false
isVisibilityAllowed(fieldVisibility, minVisibility) ==
    /\ Level(fieldVisibility) # 0
    /\ Level(minVisibility) # 0
    /\ Level(fieldVisibility) >= Level(minVisibility)

\* (typeof visValue === 'string' ? visValue.toLowerCase() : visValue) || 'private'
LeafLabel(visValue) ==
    LET lowered == IF visValue.t = "str" THEN Str(ToLowerCase(visValue.v)) ELSE visValue
    IN IF Truthy(lowered) THEN lowered ELSE Str("private")

\* a variant that walks the keys of the config and looks each one up in the
\* visibility tree
RECURSIVE filterByConfigKeys(_, _, _)
filterByConfigKeys(visibility, configData, minVisibility) ==
    LET nested(k) == IsPlainObject(Get(visibility, k))
        child(k) == filterByConfigKeys(Get(visibility, k), Get(configData, k), minVisibility)
        kept == {k \in Keys(configData) :
                    IF nested(k)
                    THEN /\ IsPlainObject(Get(configData, k))
                         /\ Keys(child(k)) # {}
                    ELSE isVisibilityAllowed(LeafLabel(Get(visibility, k)), minVisibility)}
    IN Obj([k \in kept |-> IF nested(k) THEN child(k) ELSE OrNull(Get(configData, k))])

RECURSIVE filterByVisibilityKeys(_, _, _)
filterByVisibilityKeys(visibility, configData, minVisibility) ==
    LET nested(k) == IsPlainObject(visibility.f[k])
        child(k) == filterByVisibilityKeys(visibility.f[k], Get(configData, k), minVisibility)
        kept == {k \in Keys(visibility) :
                    IF nested(k)
                    THEN /\ IsPlainObject(Get(configData, k))
                         /\ Keys(child(k)) # {}
                    ELSE isVisibilityAllowed(LeafLabel(visibility.f[k]), minVisibility)}
    IN Obj([k \in kept |-> IF nested(k) THEN child(k) ELSE OrNull(Get(configData, k))])

\* visibility || {} and the call of the inner recursion
filterConfigByVisibility(config, visibility, minVisibility) ==
    filterByVisibilityKeys(IF Truthy(visibility) THEN visibility ELSE EmptyObj,
                           config, minVisibility)

\* the result of a call: a returned value or a thrown error
Returned(v) == [threw |-> FALSE, value |-> v]
Threw(msg) == [threw |-> TRUE, value |-> Str(msg)]

\* a variant that filters at the protected level
filterProtectedConfig(config, visibility) ==
    IF ~Truthy(visibility) \/ (visibility.t = "obj" /\ Keys(visibility) = {})
    THEN Threw("Visibility metadata required to filter public fields")
    ELSE Returned(filterConfigByVisibility(config, visibility, Str("protected")))

\* a variant that returns an empty result when the visibility tree is missing
filterPublicConfigLenient(config, visibility) ==
    IF ~Truthy(visibility) \/ (visibility.t = "obj" /\ Keys(visibility) = {})
    THEN Returned(EmptyObj)
    ELSE Returned(filterConfigByVisibility(config, visibility, Str("public")))

filterPublicConfig(config, visibility) ==
    IF ~Truthy(visibility) \/ (visibility.t = "obj" /\ Keys(visibility) = {})
    THEN Threw("Visibility metadata required to filter public fields")
    ELSE Returned(filterConfigByVisibility(config, visibility, Str("public")))

-----------------------------------------------------------------------------
(* Inputs of the filter harness: config trees and visibility trees of depth  *)
(* two over the keys of the documented example (app.url, app.key,            *)
(* frontend.url), with every leaf shape the filter distinguishes.            *)

\* all functions whose domain is a subset of K and whose value at k is in V[k]
RECURSIVE PartialFunctions(_, _)
PartialFunctions(K, V) ==
    IF K = {} THEN {<<>>}
    ELSE LET k == CHOOSE x \in K : TRUE
             rest == PartialFunctions(K \ {k}, V)
         IN rest \cup {[x \in DOMAIN g \cup {k} |-> IF x = k THEN v ELSE g[x]] :
                          g \in rest, v \in V[k]}

\* all objects whose keys are a subset of K and whose value at k is in V[k]
ObjectsOver(K, V) == {Obj(g) : g \in PartialFunctions(K, V)}

Configs ==
    LET ConfigInnerValues ==
            [k \in {"url", "key"} |->
                IF k = "url" THEN {Str("u"), Null} ELSE {Str("s"), Arr}]
        ConfigInner == ObjectsOver({"url", "key"}, ConfigInnerValues)
        ConfigTopValues ==
            [k \in {"app", "frontend"} |->
                IF k = "app"
                THEN ConfigInner \cup {Str("u"), Arr, Null}
                ELSE {Obj([url |-> Str("f")]), Str("f")}]
    IN ObjectsOver({"app", "frontend"}, ConfigTopValues)

\* leaf annotations: the three levels, an upper-case spelling, a label the
\* level table does not hold, and the falsy leaves null and ""
VisibilityLeaves ==
    {Str("public"), Str("protected"), Str("private"),
     Str("PUBLIC"), Str("internal"), Null, Str("")}

VisibilityTrees ==
    LET VisibilityInnerValues == [k \in {"url", "key"} |-> VisibilityLeaves]
        VisibilityInner == ObjectsOver({"url", "key"}, VisibilityInnerValues)
        VisibilityTopValues ==
            [k \in {"app", "frontend"} |->
                IF k = "app"
                THEN VisibilityInner \cup VisibilityLeaves
                ELSE {Obj([url |-> Str("public")]), Str("public"), Str("private"),
                      EmptyObj}]
    IN ObjectsOver({"app", "frontend"}, VisibilityTopValues)

\* what a caller may pass as the visibility argument: a tree, or nothing
VisibilityArgs == VisibilityTrees \cup {Null, Undef}

MinLevels == {Str("public"), Str("protected"), Str("private")}

NoResult == [threw |-> FALSE, value |-> Undef]

FilterIdle ==
    [pc |-> "idle", op |-> "none", config |-> EmptyObj, visibility |-> Undef,
     minVisibility |-> Str("public"), out |-> NoResult]

FilterInputs ==
    {[pc |-> "ready", op |-> "none", config |-> c, visibility |-> v,
      minVisibility |-> m, out |-> NoResult] :
        c \in Configs, v \in VisibilityArgs, m \in MinLevels}

\* a caller invokes filterConfigByVisibility(config, visibility, minVisibility)
CallFilterConfigByVisibility ==
    /\ flt.pc = "ready"
    /\ flt' = [flt EXCEPT !.pc = "done", !.op = "filterConfigByVisibility",
                 !.out = Returned(filterConfigByVisibility(flt.config, flt.visibility,
                                                           flt.minVisibility))]
    /\ UNCHANGED <<cacheVars, hookVars, mrg, ext, hp>>

\* a caller invokes filterPublicConfig(config, visibility)
CallFilterPublicConfig ==
    /\ flt.pc = "ready"
    /\ flt' = [flt EXCEPT !.pc = "done", !.op = "filterPublicConfig",
                 !.out = filterPublicConfig(flt.config, flt.visibility)]
    /\ UNCHANGED <<cacheVars, hookVars, mrg, ext, hp>>


-----------------------------------------------------------------------------
(* types: Tenant records as the backend returns them *)

MkTenant(id, identifier, config) ==
    Obj([id |-> Str(id), name |-> Str(id), identifier |-> Str(identifier),
         parent_id |-> Null, is_active |-> Bool(TRUE), is_internal |-> Bool(FALSE),
         config |-> config, created_at |-> Str("2024"), updated_at |-> Str("2024"),
         parent |-> Null])

\* the example of the end-to-end property: branding.logo is protected
BrandedConfig ==
    Obj([app |-> Obj([url |-> Str("u"), key |-> Str("s")]),
         branding |-> Obj([logo |-> Str("l")]),
         __visibility |-> Obj([app |-> Obj([url |-> Str("public"), key |-> Str("private")]),
                               branding |-> Obj([logo |-> Str("protected")])])])

PlainConfig == Obj([app |-> Obj([url |-> Str("v")])])

TenantAcme == MkTenant("t1", "acme", BrandedConfig)
TenantGlobex == MkTenant("t2", "globex", PlainConfig)
\* a record whose identifier is falsy: preload keys it by its id
TenantNoIdentifier == MkTenant("t3", "", PlainConfig)

Tenants == {TenantAcme, TenantGlobex}

CacheKeys == {"acme", "globex"}

-----------------------------------------------------------------------------
(* TenantCacheService *)

CacheModes == {"preload", "lazy", "disabled"}

\* this.ttl, in clock units
Ttl == 1
\* the clock stops advancing here
MaxTime == 2
\* how many times a client calls initialize
MaxInit == 2
\* the longest list the bulk endpoint returns
MaxList == 2

\* expiresAt: a finite instant or Infinity
Infinity == [inf |-> TRUE, at |-> 0]
Instant(n) == [inf |-> FALSE, at |-> n]
\* n > expiresAt
IsAfter(n, expiresAt) == ~expiresAt.inf /\ n > expiresAt.at

CacheEntry(tenant, expiresAt) == [tenant |-> tenant, expiresAt |-> expiresAt]

\* Map.set / Map.delete / Map.size
MapSet(m, k, v) == [x \in DOMAIN m \cup {k} |-> IF x = k THEN v ELSE m[x]]
MapDelete(m, k) == [x \in DOMAIN m \ {k} |-> m[x]]
MapSize(m) == Cardinality(DOMAIN m)
EmptyMap == <<>>

\* get(key): does the read find an entry whose expiration has passed?
getEvicts(c, m, n, key) ==
    /\ m # "disabled"
    /\ key \in DOMAIN c
    /\ m = "lazy"
    /\ IsAfter(n, c[key].expiresAt)

\* a variant of get that does not look at the expiration
getReturnStale(c, m, n, key) ==
    IF m = "disabled" THEN Null
    ELSE IF key \notin DOMAIN c THEN Null
    ELSE c[key].tenant

\* get(key): the value returned
getReturn(c, m, n, key) ==
    IF m = "disabled" THEN Null
    ELSE IF key \notin DOMAIN c THEN Null
    ELSE IF m = "lazy" /\ IsAfter(n, c[key].expiresAt) THEN Null
    ELSE c[key].tenant

\* a variant of get in which a hit renews the entry's expiration
getStoreSliding(c, m, n, key) ==
    IF getEvicts(c, m, n, key) THEN MapDelete(c, key)
    ELSE IF m = "lazy" /\ key \in DOMAIN c
    THEN MapSet(c, key, CacheEntry(c[key].tenant, Instant(n + Ttl)))
    ELSE c

\* get(key): the store it leaves
getStore(c, m, n, key) ==
    IF getEvicts(c, m, n, key) THEN MapDelete(c, key) ELSE c

\* a variant of set that stores under every mode
setStoreAlways(c, m, n, key, tenant) ==
    MapSet(c, key, CacheEntry(tenant,
               IF m = "preload" THEN Infinity ELSE Instant(n + Ttl)))

\* a variant of set that gives every entry a ttl
setStoreWithTtl(c, m, n, key, tenant) ==
    IF m = "disabled" THEN c
    ELSE MapSet(c, key, CacheEntry(tenant, Instant(n + Ttl)))

\* a variant of set that keeps the entry a key already has
setStoreKeepingFirst(c, m, n, key, tenant) ==
    IF m = "disabled" \/ key \in DOMAIN c THEN c
    ELSE MapSet(c, key, CacheEntry(tenant,
                    IF m = "preload" THEN Infinity ELSE Instant(n + Ttl)))

\* set(key, tenant): the store it leaves
setStore(c, m, n, key, tenant) ==
    IF m = "disabled" THEN c
    ELSE MapSet(c, key, CacheEntry(tenant,
                    IF m = "preload" THEN Infinity ELSE Instant(n + Ttl)))

\* a variant of cleanupExpired that compares with >=
cleanupExpiredStoreAtExpiry(c, n) ==
    [k \in {x \in DOMAIN c : c[x].expiresAt.inf \/ n < c[x].expiresAt.at} |-> c[k]]

\* cleanupExpired(): the store it leaves
cleanupExpiredStore(c, n) ==
    [k \in {x \in DOMAIN c : ~IsAfter(n, c[x].expiresAt)} |-> c[k]]


\* what axiosInstance.get settles with: a rejection or a response body
Rejected == [ok |-> FALSE, data |-> Undef]
Responded(data) == [ok |-> TRUE, data |-> data]

\* tenant.identifier || tenant.id, as the Map key
preloadKey(tenant) ==
    IF Truthy(Get(tenant, "identifier"))
    THEN Get(tenant, "identifier").v
    ELSE Get(tenant, "id").v

\* the for..of loop of preloadTenants: reading .identifier of null or
\* undefined throws and leaves what the loop has stored so far
RECURSIVE preloadLoop(_, _)
preloadLoop(c, items) ==
    IF items = <<>> THEN [cache |-> c, threw |-> FALSE]
    ELSE IF Head(items).t \in {"null", "undef"} THEN [cache |-> c, threw |-> TRUE]
    ELSE preloadLoop(MapSet(c, preloadKey(Head(items)),
                            CacheEntry(Head(items), Infinity)),
                     Tail(items))

\* the try block of preloadTenants
preloadTry(c, response) ==
    IF ~response.ok THEN [cache |-> c, threw |-> TRUE]
    ELSE IF response.data.t \in {"null", "undef"} THEN [cache |-> c, threw |-> TRUE]
    ELSE LET inner == Get(response.data, "data")
             tenants == IF Truthy(inner) THEN inner
                        ELSE IF Truthy(response.data) THEN response.data
                        ELSE List(<<>>)
         IN IF tenants.t # "arr" THEN [cache |-> c, threw |-> TRUE]
            ELSE preloadLoop(c, tenants.items)

\* preloadTenants: the catch block logs the failure and swallows it
preloadTenants(c, response) ==
    LET r == preloadTry(c, response)
    IN [cache |-> r.cache, threw |-> FALSE, failed |-> r.threw]

RECURSIVE SeqsUpTo(_, _)
SeqsUpTo(S, n) ==
    IF n = 0 THEN {<<>>}
    ELSE LET shorter == SeqsUpTo(S, n - 1)
         IN shorter \cup {Append(q, x) : q \in shorter, x \in S}

\* the bodies: {data: [...]}, a bare array, an empty body, {data: null}, an
\* empty string
BulkResponses ==
    LET BulkElements == {TenantAcme, TenantNoIdentifier, Null}
        BulkLists == SeqsUpTo(BulkElements, MaxList)
        BulkBodies ==
            {Obj([data |-> List(q)]) : q \in BulkLists} \cup {List(q) : q \in BulkLists}
                \cup {Null, Obj([data |-> Null]), Str("")}
    IN {Rejected} \cup {Responded(b) : b \in BulkBodies}

\* a record of one call on the cache: its arguments and what it returned
\* (at: the time of the call, kept for set alone)
Call(op, key, tenant, ret) ==
    [op |-> op, key |-> key, tenant |-> tenant, ret |-> ret,
     at |-> IF op = "set" THEN now ELSE 0, response |-> Rejected, threw |-> FALSE]

NoCall == Call("none", "", Null, Null)

\* the record of an initialize() that awaited the bulk request: the response
\* the HTTP client settled with, and whether initialize threw
InitializeCall(response, threw) ==
    [op |-> "initialize", key |-> "", tenant |-> Null, ret |-> Undef, at |-> 0,
     response |-> response, threw |-> threw]

InitIdle ==
    [calls |-> 0, fetches |-> 0, pending |-> 0, returned |-> 0, raised |-> 0]

\* initialize() under preload: preloadTenants issues GET /<prefix>/cache and
\* suspends until the HTTP client settles
initializePreload ==
    /\ mode = "preload"
    /\ init.calls < MaxInit
    /\ init' = [init EXCEPT !.calls = @ + 1, !.fetches = @ + 1, !.pending = @ + 1]
    /\ UNCHANGED <<flt, ext, hp, cfg, boot, reqs, done, mrg, mode, cache, cleanupInterval, timers, now, last>>

\* the bulk request settles; preloadTenants processes it and initialize returns
preloadSettle(response) ==
    /\ init.pending > 0
    /\ LET r == preloadTenants(cache, response)
       IN /\ cache' = r.cache
          /\ init' = [init EXCEPT !.pending = @ - 1,
                                  !.returned = IF r.threw THEN @ ELSE @ + 1,
                                  !.raised = IF r.threw THEN @ + 1 ELSE @]
          /\ last' = InitializeCall(response, r.threw)
    /\ UNCHANGED <<flt, ext, hp, cfg, boot, reqs, done, mrg, mode, cleanupInterval, timers, now>>

\* initialize() under lazy: startCleanupInterval registers a new interval
\* timer and overwrites the handle
initializeLazy ==
    /\ mode = "lazy"
    /\ init.calls < MaxInit
    /\ LET id == init.calls + 1
       IN /\ timers' = timers \cup {id}
          /\ cleanupInterval' = id
    /\ init' = [init EXCEPT !.calls = @ + 1, !.returned = @ + 1]
    /\ last' = Call("initialize", "", Null, Undef)
    /\ UNCHANGED <<flt, ext, hp, cfg, boot, reqs, done, mrg, mode, cache, now>>

\* initialize() under disabled: nothing
initializeDisabled ==
    /\ mode = "disabled"
    /\ init.calls < MaxInit
    /\ init' = [init EXCEPT !.calls = @ + 1, !.returned = @ + 1]
    /\ last' = Call("initialize", "", Null, Undef)
    /\ UNCHANGED <<flt, ext, hp, cfg, boot, reqs, done, mrg, mode, cache, cleanupInterval, timers, now>>

get(key) ==
    /\ cache' = getStore(cache, mode, now, key)
    /\ last' = Call("get", key, Null, getReturn(cache, mode, now, key))
    /\ UNCHANGED <<flt, ext, hp, cfg, boot, reqs, done, mrg, mode, cleanupInterval, timers, now, init>>

set(key, tenant) ==
    /\ cache' = setStore(cache, mode, now, key, tenant)
    /\ last' = Call("set", key, tenant, Undef)
    /\ UNCHANGED <<flt, ext, hp, cfg, boot, reqs, done, mrg, mode, cleanupInterval, timers, now, init>>

delete(key) ==
    /\ cache' = MapDelete(cache, key)
    /\ last' = Call("delete", key, Null, Undef)
    /\ UNCHANGED <<flt, ext, hp, cfg, boot, reqs, done, mrg, mode, cleanupInterval, timers, now, init>>

clear ==
    /\ cache' = EmptyMap
    /\ last' = Call("clear", "", Null, Undef)
    /\ UNCHANGED <<flt, ext, hp, cfg, boot, reqs, done, mrg, mode, cleanupInterval, timers, now, init>>

\* destroy(): clearInterval on the handle, if one is set, and clear the store
destroy ==
    /\ timers' = IF cleanupInterval # 0 THEN timers \ {cleanupInterval} ELSE timers
    /\ cache' = EmptyMap
    /\ last' = Call("destroy", "", Null, Undef)
    /\ UNCHANGED <<flt, ext, hp, cfg, boot, reqs, done, mrg, mode, cleanupInterval, now, init>>

\* an interval timer fires and runs cleanupExpired
cleanupTick ==
    /\ timers # {}
    /\ cache' = cleanupExpiredStore(cache, now)
    /\ UNCHANGED <<flt, ext, hp, cfg, boot, reqs, done, mrg, mode, cleanupInterval, timers, now, init, last>>

\* Date.now() advances
Tick ==
    /\ now < MaxTime
    /\ now' = now + 1
    /\ UNCHANGED <<flt, ext, hp, cfg, boot, reqs, done, mrg, mode, cache, cleanupInterval, timers, init, last>>

-----------------------------------------------------------------------------
(* TenantResolver *)

\* String.prototype.split(sep) for a one-character separator
RECURSIVE SplitFrom(_, _, _, _)
SplitFrom(s, sep, i, cur) ==
    IF i > Len(s) THEN <<cur>>
    ELSE IF SubSeq(s, i, i) = sep THEN <<cur>> \o SplitFrom(s, sep, i + 1, "")
    ELSE SplitFrom(s, sep, i + 1, cur \o SubSeq(s, i, i))

split(s, sep) == SplitFrom(s, sep, 1, "")

\* an express request: the x-forwarded-host and host headers, req.hostname,
\* req.path and the tenant header (Undef when the request lacks one)
Request(forwardedHost, host, hostname, path, header) ==
    [forwardedHost |-> forwardedHost, host |-> host, hostname |-> hostname,
     path |-> path, header |-> header]

extractDomain(req) ==
    IF Truthy(req.forwardedHost) THEN Str(split(req.forwardedHost.v, ":")[1])
    ELSE IF Truthy(req.host) THEN Str(split(req.host.v, ":")[1])
    ELSE req.hostname

\* a variant of extractSubdomain that takes the last three labels for the
\* parent domain
extractSubdomainBelowThree(req, level) ==
    LET hostname == extractDomain(req)
    IN IF hostname.t # "str" THEN Threw("TypeError")
       ELSE LET parts == split(hostname.v, ".")
            IN IF Len(parts) <= 3 THEN Returned(Null)
               ELSE IF level >= 0 /\ level < Len(parts) - 2
                    THEN Returned(Str(parts[level + 1]))
                    ELSE Returned(Null)

\* hostname.split throws a TypeError when no host could be determined
extractSubdomain(req, level) ==
    LET hostname == extractDomain(req)
    IN IF hostname.t # "str" THEN Threw("TypeError")
       ELSE LET parts == split(hostname.v, ".")
            IN IF Len(parts) <= 2 THEN Returned(Null)
               ELSE IF level >= 0 /\ level < Len(parts) - 2
                    THEN Returned(Str(parts[level + 1]))
                    ELSE Returned(Null)

\* a variant of extractFromPath that keeps the empty segments
extractFromPathUnfiltered(req, index) ==
    LET segments == split(req.path, "/")
    IN IF index >= 0 /\ index < Len(segments)
       THEN Returned(Str(segments[index + 1]))
       ELSE Returned(Null)

extractFromPath(req, index) ==
    LET segments == SelectSeq(split(req.path, "/"), LAMBDA seg : Len(seg) > 0)
    IN IF index >= 0 /\ index < Len(segments)
       THEN Returned(Str(segments[index + 1]))
       ELSE Returned(Null)

\* req.get(headerName) || null
extractFromHeader(req) ==
    IF Truthy(req.header) THEN Returned(req.header) ELSE Returned(Null)

\* a variant of extractIdentifier that counts the subdomain level from 1
extractIdentifierFromOne(req, strategy) ==
    CASE strategy.strategy = "domain" -> Returned(extractDomain(req))
      [] strategy.strategy = "subdomain" ->
           extractSubdomain(req, strategy.subdomainLevel - 1)
      [] strategy.strategy = "path" -> extractFromPath(req, strategy.pathIndex)
      [] strategy.strategy = "header" -> extractFromHeader(req)
      [] OTHER -> Returned(Null)

\* strategy: [strategy, subdomainLevel, pathIndex]; a level or index of 0 is
\* what `|| 0` makes of a missing one
extractIdentifier(req, strategy) ==
    CASE strategy.strategy = "domain" -> Returned(extractDomain(req))
      [] strategy.strategy = "subdomain" -> extractSubdomain(req, strategy.subdomainLevel)
      [] strategy.strategy = "path" -> extractFromPath(req, strategy.pathIndex)
      [] strategy.strategy = "header" -> extractFromHeader(req)
      [] OTHER -> Returned(Null)

\* the largest subdomain level and path index a deployment configures
MaxLevel == 3

\* hosts of one to four labels, one of them with a port
ExtractHosts ==
    {"localhost", "myapp.com", "a.b.com", "x.a.b.com", "acme.myapp.com",
     "acme.myapp.com:8080", "app.acme.myapp.com"}

\* paths of zero to two segments, one with empty segments in between
ExtractPaths == {"/", "/t", "/t/dashboard", "/acme/dashboard", "//t//dashboard/"}

\* requests with a Host header (req.hostname is the host without its port),
\* behind a proxy that sets x-forwarded-host, with the tenant header, and one
\* without any host
ExtractRequests ==
    {Request(Undef, Str(h), Str(split(h, ":")[1]), p, Undef) :
        h \in ExtractHosts, p \in ExtractPaths}
    \cup {Request(Str(h), Str("proxy.internal"), Str("proxy.internal"), "/t", Undef) :
              h \in ExtractHosts}
    \cup {Request(Undef, Str("myapp.com"), Str("myapp.com"), "/", Str("acme")),
          Request(Undef, Undef, Undef, "/t", Undef)}

\* the strategies a TenantResolver is constructed with; an unset level or
\* index is 0, as is one that `|| 0` replaces
ExtractStrategies ==
    {[strategy |-> s, subdomainLevel |-> 0, pathIndex |-> 0] :
        s \in {"domain", "header", "other"}}
    \cup {[strategy |-> "subdomain", subdomainLevel |-> l, pathIndex |-> 0] :
              l \in -1 .. MaxLevel}
    \cup {[strategy |-> "path", subdomainLevel |-> 0, pathIndex |-> i] :
              i \in -1 .. MaxLevel}

ExtractIdle ==
    [pc |-> "idle", req |-> Request(Undef, Undef, Undef, "", Undef),
     strategy |-> [strategy |-> "domain", subdomainLevel |-> 0, pathIndex |-> 0],
     out |-> Returned(Undef)]

ExtractInputs ==
    {[pc |-> "ready", req |-> r, strategy |-> s, out |-> Returned(Undef)] :
        r \in ExtractRequests, s \in ExtractStrategies}

\* a caller invokes resolver.extractIdentifier(req)
CallExtractIdentifier ==
    /\ ext.pc = "ready"
    /\ ext' = [ext EXCEPT !.pc = "done",
                          !.out = extractIdentifier(ext.req, ext.strategy)]
    /\ UNCHANGED <<flt, mrg, hp, cacheVars, hookVars>>

EndpointPrefix == "tenant-info"

\* the URL resolveTenantByIdentifier requests
resolveUrl(identifier, resolutionMode) ==
    IF resolutionMode = "gateway"
    THEN "/" \o EndpointPrefix \o "/protected"
    ELSE "https://api." \o identifier \o "/" \o EndpointPrefix \o "/protected"

\* resolveTenantByIdentifier once the HTTP client has settled: a rejection, or
\* a TypeError at response.data.data, ends in the catch block
resolveTenantByIdentifier(response) ==
    IF ~response.ok THEN [tenant |-> Null, error |-> TRUE]
    ELSE IF response.data.t \in {"null", "undef"} THEN [tenant |-> Null, error |-> TRUE]
    ELSE [tenant |-> IF Truthy(Get(response.data, "data"))
                     THEN Get(response.data, "data")
                     ELSE response.data,
          error |-> FALSE]


-----------------------------------------------------------------------------
(* cookies: cookie names derived from the tenant *)

\* `tenant_${tenant.id}_<suffix>` unless the tenant's config names the cookie
cookieName(tenant, section, suffix, fallback) ==
    LET customName == Get(Get(Get(tenant, "config"), section), "name")
    IN IF Truthy(customName) THEN customName
       ELSE IF Truthy(Get(tenant, "id"))
            THEN Str("tenant_" \o Get(tenant, "id").v \o suffix)
            ELSE Str(fallback)

createTenantXsrfCookieName(tenant) == cookieName(tenant, "xsrf", "_xsrf", "XSRF-TOKEN")

createTenantSessionCookieName(tenant) ==
    cookieName(tenant, "session", "_session", "laravel_session")

-----------------------------------------------------------------------------
(* TenantRequestHooks: the merge stage *)

AppFields == {"name", "url", "env", "debug", "timezone", "locale", "fallback_locale"}
FrontendFields == {"url", "custom_scheme"}

\* one section of defaultMergeTenantConfig: the listed fields the tenant
\* config defines overwrite those of the base section, created when missing
mergeSection(baseConfig, tenantConfig, section, fields, blank) ==
    IF ~Truthy(Get(tenantConfig, section)) THEN baseConfig
    ELSE LET source == Get(tenantConfig, section)
             target == IF Truthy(Get(baseConfig, section))
                       THEN Get(baseConfig, section) ELSE blank
             defined == {f \in fields : Get(source, f) # Undef}
         IN SetProp(baseConfig, section,
                    Obj([f \in DOMAIN target.f \cup defined |->
                            IF f \in defined THEN Get(source, f) ELSE target.f[f]]))

\* defaultMergeTenantConfig: baseConfig as the call leaves it
defaultMergeTenantConfig(baseConfig, tenantConfig) ==
    mergeSection(
        mergeSection(baseConfig, tenantConfig, "app", AppFields,
                     Obj([name |-> Str(""), url |-> Str("")])),
        tenantConfig, "frontend", FrontendFields, Obj([url |-> Str("")]))

\* the config handed to the filter: tenant.config without __visibility
configWithoutMeta(tenant) == Omit(Get(tenant, "config"), "__visibility")

\* a variant that hands out the whole config when there are no annotations
extractPublicTenantConfigUnfiltered(tenant) ==
    IF ~IsPlainObject(Get(tenant, "config")) THEN Threw("TypeError")
    ELSE LET visibility == Get(Get(tenant, "config"), "__visibility")
         IN IF Truthy(visibility) /\ Keys(visibility) # {}
            THEN filterPublicConfig(configWithoutMeta(tenant), visibility)
            ELSE Returned(configWithoutMeta(tenant))

\* extractPublicTenantConfig: reading __visibility of a missing config throws
extractPublicTenantConfig(tenant) ==
    IF ~IsPlainObject(Get(tenant, "config")) THEN Threw("TypeError")
    ELSE LET visibility == Get(Get(tenant, "config"), "__visibility")
         IN IF Truthy(visibility) /\ Keys(visibility) # {}
            THEN filterPublicConfig(configWithoutMeta(tenant), visibility)
            ELSE Returned(EmptyObj)

\* extractPublicTenantConfig: does the call log the warning that no
\* __visibility metadata was found?
extractPublicTenantConfigWarns(tenant) ==
    /\ IsPlainObject(Get(tenant, "config"))
    /\ LET visibility == Get(Get(tenant, "config"), "__visibility")
       IN ~(Truthy(visibility) /\ Keys(visibility) # {})

\* ensureQuvelContext
ensureQuvelContext(ctx) ==
    IF Truthy(ctx) THEN ctx ELSE Obj([startTime |-> Num(now)])

\* buildSsrContext: req.quvelContext as the call leaves it, and whether it threw
buildSsrContext(ctx, tenant) ==
    LET c1 == SetProp(ensureQuvelContext(ctx), "tenant", tenant)
        c2 == IF Truthy(Get(c1, "appConfig")) THEN c1 ELSE SetProp(c1, "appConfig", EmptyObj)
        pub == extractPublicTenantConfig(tenant)
    IN IF pub.threw THEN [ctx |-> c2, threw |-> TRUE]
       ELSE LET merged == defaultMergeTenantConfig(Get(c2, "appConfig"), pub.value)
                session == IF Truthy(Get(merged, "session"))
                           THEN Get(merged, "session") ELSE EmptyObj
                named == SetProp(SetProp(session, "cookie",
                                         createTenantSessionCookieName(tenant)),
                                 "xsrf_cookie", createTenantXsrfCookieName(tenant))
            IN [ctx |-> SetProp(c2, "appConfig", SetProp(merged, "session", named)),
                threw |-> FALSE]

\* a variant that copies the whole record and replaces its config
publicTenantWhole(tenant, publicTenantConfig) ==
    SetProp(tenant, "config", publicTenantConfig)

\* the tenant field buildPublicConfig writes on the client payload
publicTenant(tenant, publicTenantConfig) ==
    Obj([id |-> Get(tenant, "id"), name |-> Get(tenant, "name"),
         identifier |-> Get(tenant, "identifier"), parent_id |-> Get(tenant, "parent_id"),
         is_active |-> Get(tenant, "is_active"), is_internal |-> Get(tenant, "is_internal"),
         config |-> publicTenantConfig])

\* a variant that leaves the session object of the payload as it is
buildPublicConfigKeepingCookie(ctx, tenant, bagConfig) ==
    LET config0 == IF Truthy(bagConfig) THEN bagConfig ELSE EmptyObj
        ctxSession == Get(Get(ctx, "appConfig"), "session")
        config1 ==
            IF ~Truthy(ctxSession) THEN config0
            ELSE LET s0 == IF Truthy(Get(config0, "session"))
                           THEN Get(config0, "session") ELSE EmptyObj
                     s1 == IF Truthy(Get(ctxSession, "xsrf_cookie"))
                           THEN SetProp(s0, "xsrf_cookie", Get(ctxSession, "xsrf_cookie"))
                           ELSE s0
                 IN SetProp(config0, "session", s1)
        pub == extractPublicTenantConfig(tenant).value
        config2 == SetProp(defaultMergeTenantConfig(config1, pub), "tenant",
                           publicTenant(tenant, pub))
        config3 == IF Truthy(Get(config2, "trace"))
                   THEN SetProp(config2, "trace",
                                SetProp(Get(config2, "trace"), "tenant", Get(tenant, "id")))
                   ELSE config2
    IN config3

\* buildPublicConfig: the __APP_CONFIG__ value the call leaves in the bag
buildPublicConfig(ctx, tenant, bagConfig) ==
    LET config0 == IF Truthy(bagConfig) THEN bagConfig ELSE EmptyObj
        ctxSession == Get(Get(ctx, "appConfig"), "session")
        config1 ==
            IF ~Truthy(ctxSession) THEN config0
            ELSE LET s0 == IF Truthy(Get(config0, "session"))
                           THEN Get(config0, "session") ELSE EmptyObj
                     s1 == IF Truthy(Get(ctxSession, "xsrf_cookie"))
                           THEN SetProp(s0, "xsrf_cookie", Get(ctxSession, "xsrf_cookie"))
                           ELSE s0
                 IN SetProp(config0, "session", s1)
        pub == extractPublicTenantConfig(tenant).value
        config2 == SetProp(defaultMergeTenantConfig(config1, pub), "tenant",
                           publicTenant(tenant, pub))
        config3 == IF Truthy(Get(config2, "trace"))
                   THEN SetProp(config2, "trace",
                                SetProp(Get(config2, "trace"), "tenant", Get(tenant, "id")))
                   ELSE config2
    IN IF Truthy(Get(Get(config3, "session"), "cookie"))
       THEN SetProp(config3, "session", Omit(Get(config3, "session"), "cookie"))
       ELSE config3

\* a variant of the not-found error that carries no code
NotFoundErrorUncoded == Obj([message |-> Str("Tenant not found")])

\* a variant of the redirect error that always carries 302
RedirectErrorFound(url, code) ==
    Obj([message |-> Str("Redirecting to tenant not found page"), url |-> url,
         code |-> Num(302)])

\* the error objects handleTenantNotFound throws
NotFoundError == Obj([message |-> Str("Tenant not found"), code |-> Num(404)])
RedirectError(url, code) ==
    Obj([message |-> Str("Redirecting to tenant not found page"), url |-> url,
         code |-> IF Truthy(code) THEN code ELSE Num(302)])

\* a variant of handleTenantNotFound that marks the tenant null under every
\* policy before it acts
handleTenantNotFoundMarking(ctx, action) ==
    LET type == IF Truthy(action) THEN Get(action, "type") ELSE Str("404")
        marked == SetProp(ensureQuvelContext(ctx), "tenant", Null)
    IN CASE type = Str("404") -> [ctx |-> marked, error |-> NotFoundError, handled |-> FALSE]
         [] type = Str("redirect") ->
              [ctx |-> marked,
               error |-> RedirectError(Get(action, "url"), Get(action, "code")),
               handled |-> FALSE]
         [] type = Str("custom") ->
              [ctx |-> marked, error |-> Undef, handled |-> Truthy(Get(action, "handler"))]
         [] OTHER -> [ctx |-> marked, error |-> Undef, handled |-> FALSE]

\* handleTenantNotFound: req.quvelContext as it leaves it and the error it
\* throws (Undef when it returns); action is config.onTenantNotFound
handleTenantNotFound(ctx, action) ==
    LET type == IF Truthy(action) THEN Get(action, "type") ELSE Str("404")
    IN CASE type = Str("404") -> [ctx |-> ctx, error |-> NotFoundError, handled |-> FALSE]
         [] type = Str("redirect") ->
              [ctx |-> ctx, error |-> RedirectError(Get(action, "url"), Get(action, "code")),
               handled |-> FALSE]
         [] type = Str("render") ->
              [ctx |-> SetProp(ensureQuvelContext(ctx), "tenant", Null),
               error |-> Undef, handled |-> FALSE]
         [] type = Str("custom") ->
              [ctx |-> ctx, error |-> Undef, handled |-> Truthy(Get(action, "handler"))]
         [] OTHER -> [ctx |-> ctx, error |-> Undef, handled |-> FALSE]

TypeError == Obj([message |-> Str("TypeError")])

\* enrichWindowBag from the point where resolveTenant has returned `tenant`:
\* the two views as the hook leaves them, the error it rejects with (Undef
\* when it completes), how often the merge handler ran, whether the custom
\* not-found handler ran, how many warnings of missing annotations were logged
enrichWith(tenant, ctx, bagConfig, action) ==
    IF ~Truthy(tenant)
    THEN IF Get(action, "type") = Str("render")
         THEN [ctx |-> ctx, bag |-> bagConfig, error |-> Undef, merges |-> 0,
               handled |-> FALSE, warnings |-> 0]
         ELSE LET r == handleTenantNotFound(ctx, action)
              IN [ctx |-> r.ctx, bag |-> bagConfig, error |-> r.error, merges |-> 0,
                  handled |-> r.handled, warnings |-> 0]
    ELSE LET ssr == buildSsrContext(ctx, tenant)
         IN IF ssr.threw
            THEN [ctx |-> ssr.ctx, bag |-> bagConfig, error |-> TypeError, merges |-> 0,
                  handled |-> FALSE, warnings |-> 0]
            ELSE [ctx |-> ssr.ctx, bag |-> buildPublicConfig(ssr.ctx, tenant, bagConfig),
                  error |-> Undef, merges |-> 2, handled |-> FALSE,
                  warnings |-> IF extractPublicTenantConfigWarns(tenant) THEN 2 ELSE 0]


-----------------------------------------------------------------------------
(* TenantRequestHooks: boot and the pre-render hook *)

\* how many requests are in flight at once
MaxRequests == 2

RequestIds == 1 .. MaxRequests

\* the cache mode the constructor hands to TenantCacheService
constructedMode(config) ==
    IF config.cacheMode = "undefined" THEN "lazy" ELSE config.cacheMode

SubdomainStrategy == [strategy |-> "subdomain", subdomainLevel |-> 0, pathIndex |-> 0]

HooksConfig(enabled, resolutionMode, baseURL, cacheMode, onTenantNotFound) ==
    [enabled |-> enabled, resolutionMode |-> resolutionMode, baseURL |-> baseURL,
     cacheMode |-> cacheMode, onTenantNotFound |-> onTenantNotFound,
     strategy |-> SubdomainStrategy]

NotFoundActions ==
    {Undef,
     Obj([type |-> Str("404")]),
     Obj([type |-> Str("redirect"), url |-> Str("/missing"), code |-> Num(301)]),
     Obj([type |-> Str("redirect"), url |-> Str("/missing")]),
     Obj([type |-> Str("render")]),
     Obj([type |-> Str("custom"), handler |-> Str("handler")])}

\* the configurations a deployment boots with: every cache mode behind a
\* gateway (without a policy, with the 404 policy, and the one without a
\* cache redirecting with a code of its own), and one deployment for each
\* other setting (a disabled one for each of two cache modes)
HooksConfigs ==
    {HooksConfig(TRUE, "gateway", TRUE, "preload", Undef),
     HooksConfig(TRUE, "gateway", TRUE, "lazy", Obj([type |-> Str("404")]))}
    \cup {HooksConfig(TRUE, "gateway", TRUE, "disabled",
                      Obj([type |-> Str("redirect"), url |-> Str("/gone"),
                           code |-> Num(301)]))}
    \cup {HooksConfig(TRUE, "direct", TRUE, "undefined",
                      Obj([type |-> Str("redirect"), url |-> Str("/missing")]))}
    \cup {HooksConfig(FALSE, "gateway", TRUE, "lazy", Undef),
          HooksConfig(FALSE, "gateway", TRUE, "preload", Undef),
          HooksConfig(TRUE, "gateway", FALSE, "lazy", Undef),
          HooksConfig(TRUE, "direct", FALSE, "preload", Obj([type |-> Str("render")]))}

\* the requests that arrive: two tenants' hosts (one with a port), the bare
\* domain, and a request from which express derives no host at all
Requests ==
    {Request(Undef, Str("acme.myapp.com"), Str("acme.myapp.com"), "/", Undef),
     Request(Undef, Str("globex.myapp.com:8080"), Str("globex.myapp.com"), "/", Undef),
     Request(Undef, Str("myapp.com"), Str("myapp.com"), "/", Undef),
     Request(Undef, Undef, Undef, "/", Undef)}

NoRequest == Request(Undef, Undef, Undef, "", Undef)

\* __APP_CONFIG__ as the host prepared it before the hook runs
BaseAppConfig ==
    Obj([app |-> Obj([name |-> Str("base"), url |-> Str("b")]),
         session |-> Obj([cookie |-> Str("base_session")]),
         trace |-> Obj([id |-> Str("trace")])])

\* what the backend answers a resolution request for `identifier` with:
\* {data: Tenant} or a bare Tenant of that identifier, {data: null}, a null
\* body, an empty body, or a failure
FetchResponses(identifier) ==
    LET known == {t \in Tenants : Get(t, "identifier") = identifier}
    IN {Rejected, Responded(Null), Responded(Obj([data |-> Null])), Responded(Str(""))}
           \cup {Responded(Obj([data |-> t])) : t \in known}
           \cup {Responded(t) : t \in known}

AllFetchResponses == UNION {FetchResponses(Get(t, "identifier")) : t \in Tenants}

\* a variant of resolveTenant that asks the backend without reading the cache
resolveTenantBeginUncached(req, strategy, c, m, n) ==
    LET e == extractIdentifier(req, strategy)
    IN IF e.threw
       THEN [pc |-> "done", route |-> "fault", identifier |-> Null, tenant |-> Null,
             raised |-> FALSE, cache |-> c]
       ELSE IF ~Truthy(e.value)
       THEN [pc |-> "done", route |-> "noIdentifier", identifier |-> e.value,
             tenant |-> Null, raised |-> FALSE, cache |-> c]
       ELSE [pc |-> "fetching", route |-> "none", identifier |-> e.value,
             tenant |-> Undef, raised |-> FALSE, cache |-> c]

\* a variant of resolveTenant that asks the backend for the empty identifier
\* when none was extracted
resolveTenantBeginUnguarded(req, strategy, c, m, n) ==
    LET e == extractIdentifier(req, strategy)
    IN IF e.threw
       THEN [pc |-> "done", route |-> "fault", identifier |-> Null, tenant |-> Null,
             raised |-> FALSE, cache |-> c]
       ELSE IF ~Truthy(e.value)
       THEN [pc |-> "fetching", route |-> "none", identifier |-> Str(""),
             tenant |-> Undef, raised |-> FALSE, cache |-> c]
       ELSE IF Truthy(getReturn(c, m, n, e.value.v))
       THEN [pc |-> "done", route |-> "cache", identifier |-> e.value,
             tenant |-> getReturn(c, m, n, e.value.v), raised |-> FALSE,
             cache |-> getStore(c, m, n, e.value.v)]
       ELSE [pc |-> "fetching", route |-> "none", identifier |-> e.value,
             tenant |-> Undef, raised |-> FALSE, cache |-> getStore(c, m, n, e.value.v)]

\* resolveTenant up to the point where it awaits the HTTP client, or to its
\* return when it does not get that far; the catch block turns a throw of
\* the extractor into a null result
resolveTenantBegin(req, strategy, c, m, n) ==
    LET e == extractIdentifier(req, strategy)
    IN IF e.threw
       THEN [pc |-> "done", route |-> "fault", identifier |-> Null, tenant |-> Null,
             raised |-> FALSE, cache |-> c]
       ELSE IF ~Truthy(e.value)
       THEN [pc |-> "done", route |-> "noIdentifier", identifier |-> e.value,
             tenant |-> Null, raised |-> FALSE, cache |-> c]
       ELSE IF Truthy(getReturn(c, m, n, e.value.v))
       THEN [pc |-> "done", route |-> "cache", identifier |-> e.value,
             tenant |-> getReturn(c, m, n, e.value.v), raised |-> FALSE,
             cache |-> getStore(c, m, n, e.value.v)]
       ELSE [pc |-> "fetching", route |-> "none", identifier |-> e.value,
             tenant |-> Undef, raised |-> FALSE, cache |-> getStore(c, m, n, e.value.v)]

\* a variant of resolveTenant that repeats a failed request
resolveTenantResumeRetrying(identifier, response, c, m, n) ==
    LET result == resolveTenantByIdentifier(response)
    IN IF result.error
       THEN [pc |-> "fetching", route |-> "none", tenant |-> Undef, raised |-> FALSE,
             cache |-> c]
       ELSE IF Truthy(result.tenant)
       THEN [pc |-> "done", route |-> "api", tenant |-> result.tenant, raised |-> FALSE,
             cache |-> setStore(c, m, n, identifier.v, result.tenant)]
       ELSE [pc |-> "done", route |-> "notFound", tenant |-> result.tenant,
             raised |-> FALSE, cache |-> c]

\* a variant of resolveTenant that does not store what the backend returned
resolveTenantResumeUnstored(identifier, response, c, m, n) ==
    LET result == resolveTenantByIdentifier(response)
    IN IF result.error
       THEN [pc |-> "done", route |-> "apiError", tenant |-> Null, raised |-> FALSE,
             cache |-> c]
       ELSE IF Truthy(result.tenant)
       THEN [pc |-> "done", route |-> "api", tenant |-> result.tenant, raised |-> FALSE,
             cache |-> c]
       ELSE [pc |-> "done", route |-> "notFound", tenant |-> result.tenant,
             raised |-> FALSE, cache |-> c]

\* resolveTenant from the point where the HTTP client has settled
resolveTenantResume(identifier, response, c, m, n) ==
    LET result == resolveTenantByIdentifier(response)
    IN IF result.error
       THEN [pc |-> "done", route |-> "apiError", tenant |-> Null, raised |-> FALSE,
             cache |-> c]
       ELSE IF Truthy(result.tenant)
       THEN [pc |-> "done", route |-> "api", tenant |-> result.tenant, raised |-> FALSE,
             cache |-> setStore(c, m, n, identifier.v, result.tenant)]
       ELSE [pc |-> "done", route |-> "notFound", tenant |-> result.tenant,
             raised |-> FALSE, cache |-> c]

\* a request suspended at the await of the HTTP client
InFlight(req, identifier, fetches) ==
    [req |-> req, identifier |-> identifier, fetches |-> fetches]

\* the sequence q without its i-th element
RemoveAt(q, i) == SubSeq(q, 1, i - 1) \o SubSeq(q, i + 1, Len(q))

NoneDone ==
    [req |-> NoRequest, identifier |-> Null, route |-> "none", tenant |-> Undef,
     fetches |-> 0, raised |-> FALSE, ctx |-> Undef, bag |-> Undef, error |-> Undef,
     merges |-> 0, handled |-> FALSE]

\* the record of a completed request: how resolveTenant ended and what the
\* merge stage made of req.quvelContext and __APP_CONFIG__
Completed(req, identifier, r, fetches) ==
    LET m == enrichWith(r.tenant, Undef, BaseAppConfig, cfg.onTenantNotFound)
    IN [req |-> req, identifier |-> identifier, route |-> r.route, tenant |-> r.tenant,
        fetches |-> fetches, raised |-> r.raised,
        ctx |-> IF r.raised THEN Undef ELSE m.ctx,
        bag |-> IF r.raised THEN BaseAppConfig ELSE m.bag,
        error |-> IF r.raised THEN TypeError ELSE m.error,
        merges |-> IF r.raised THEN 0 ELSE m.merges,
        handled |-> IF r.raised THEN FALSE ELSE m.handled]

BootNew == [pc |-> "new", hook |-> FALSE]

\* boot(): the enable flag is off
bootDisabled ==
    /\ boot.pc = "new"
    /\ ~cfg.enabled
    /\ boot' = [boot EXCEPT !.pc = "disabled"]
    /\ UNCHANGED <<flt, ext, hp, mrg, cacheVars, cfg, reqs, done>>

\* boot(): gateway mode without a baseURL throws
bootThrows ==
    /\ boot.pc = "new"
    /\ cfg.enabled
    /\ cfg.resolutionMode = "gateway" /\ ~cfg.baseURL
    /\ boot' = [boot EXCEPT !.pc = "failed"]
    /\ UNCHANGED <<flt, ext, hp, mrg, cacheVars, cfg, reqs, done>>

\* a variant of boot's checks without the one of the enable flag
bootCheckedWhateverEnabled ==
    /\ boot.pc = "new"
    /\ ~(cfg.resolutionMode = "gateway" /\ ~cfg.baseURL)

\* a variant of boot's checks without the one of the baseURL
bootCheckedLenient ==
    /\ boot.pc = "new"
    /\ cfg.enabled

bootChecked ==
    /\ boot.pc = "new"
    /\ cfg.enabled
    /\ ~(cfg.resolutionMode = "gateway" /\ ~cfg.baseURL)

\* boot(): config.cache.mode is 'disabled', initialize is skipped
bootWithoutCache ==
    /\ bootChecked
    /\ cfg.cacheMode = "disabled"
    /\ boot' = [pc |-> "booted", hook |-> TRUE]
    /\ UNCHANGED <<flt, ext, hp, mrg, cacheVars, cfg, reqs, done>>

\* boot(): initialize under lazy starts the sweep, then the hook is registered
bootLazy ==
    /\ bootChecked
    /\ cfg.cacheMode # "disabled" /\ mode = "lazy"
    /\ timers' = timers \cup {init.calls + 1}
    /\ cleanupInterval' = init.calls + 1
    /\ init' = [init EXCEPT !.calls = @ + 1, !.returned = @ + 1]
    /\ boot' = [pc |-> "booted", hook |-> TRUE]
    /\ UNCHANGED <<flt, ext, hp, mrg, mode, cache, now, last, cfg, reqs, done>>

\* a variant of boot() that registers the hook before it awaits initialize
bootPreloadEager ==
    /\ bootChecked
    /\ cfg.cacheMode # "disabled" /\ mode = "preload"
    /\ init' = [init EXCEPT !.calls = @ + 1, !.fetches = @ + 1, !.pending = @ + 1]
    /\ boot' = [pc |-> "initializing", hook |-> TRUE]
    /\ UNCHANGED <<flt, ext, hp, mrg, mode, cache, cleanupInterval, timers, now, last,
                   cfg, reqs, done>>

\* boot(): initialize under preload issues the bulk request and suspends
bootPreload ==
    /\ bootChecked
    /\ cfg.cacheMode # "disabled" /\ mode = "preload"
    /\ init' = [init EXCEPT !.calls = @ + 1, !.fetches = @ + 1, !.pending = @ + 1]
    /\ boot' = [boot EXCEPT !.pc = "initializing"]
    /\ UNCHANGED <<flt, ext, hp, mrg, mode, cache, cleanupInterval, timers, now, last,
                   cfg, reqs, done>>

\* boot(): the bulk request settles, initialize returns, the hook is registered
bootSettle(response) ==
    /\ boot.pc = "initializing"
    /\ LET r == preloadTenants(cache, response)
       IN /\ cache' = r.cache
          /\ init' = [init EXCEPT !.pending = @ - 1,
                                  !.returned = IF r.threw THEN @ ELSE @ + 1,
                                  !.raised = IF r.threw THEN @ + 1 ELSE @]
          /\ boot' = IF r.threw THEN [boot EXCEPT !.pc = "failed"]
                     ELSE [pc |-> "booted", hook |-> TRUE]
    /\ UNCHANGED <<flt, ext, hp, mrg, mode, cleanupInterval, timers, now, last, cfg, reqs, done>>

\* a variant of the hook in which a request that misses joins the fetch of a
\* request for the same identifier already in flight
enrichWindowBagBeginCoalesced(req) ==
    /\ boot.hook /\ boot.pc # "destroyed"
    /\ Len(reqs) < MaxRequests
    /\ UNCHANGED <<flt, ext, hp, mrg, mode, cleanupInterval, timers, now, init, last, cfg, boot>>
    /\ LET r == resolveTenantBegin(req, cfg.strategy, cache, mode, now)
           joins == \E i \in 1 .. Len(reqs) : reqs[i].identifier = r.identifier
       IN /\ cache' = r.cache
          /\ IF r.pc = "done"
             THEN /\ reqs' = reqs
                  /\ done' = Completed(req, r.identifier, r, 0)
             ELSE /\ reqs' = Append(reqs, InFlight(req, r.identifier,
                                                   IF joins THEN 0 ELSE 1))
                  /\ done' = done

\* a request arrives and the pre-render hook enrichWindowBag runs up to the
\* await of the HTTP client, or to its end when resolveTenant does not fetch
enrichWindowBagBegin(req) ==
    /\ boot.hook /\ boot.pc # "destroyed"
    /\ Len(reqs) < MaxRequests
    /\ UNCHANGED <<flt, ext, hp, mrg, mode, cleanupInterval, timers, now, init, last, cfg, boot>>
    /\ LET r == resolveTenantBegin(req, cfg.strategy, cache, mode, now)
       IN /\ cache' = r.cache
          /\ IF r.pc = "done"
             THEN /\ reqs' = reqs
                  /\ done' = Completed(req, r.identifier, r, 0)
             ELSE /\ reqs' = Append(reqs, InFlight(req, r.identifier, 1))
                  /\ done' = done

\* the HTTP client settles the GET of the i-th request in flight; resolveTenant
\* and the merge stage run to the end of enrichWindowBag
enrichWindowBagResume(i, response) ==
    /\ i \in 1 .. Len(reqs)
    /\ response \in FetchResponses(reqs[i].identifier)
    /\ UNCHANGED <<flt, ext, hp, mrg, mode, cleanupInterval, timers, now, init, last, cfg, boot>>
    /\ LET r == resolveTenantResume(reqs[i].identifier, response, cache, mode, now)
       IN /\ cache' = r.cache
          /\ IF r.pc = "done"
             THEN /\ reqs' = RemoveAt(reqs, i)
                  /\ done' = Completed(reqs[i].req, reqs[i].identifier, r,
                                       reqs[i].fetches)
             ELSE /\ reqs' = [reqs EXCEPT ![i].fetches = @ + 1]
                  /\ done' = done

\* destroy() at shutdown: the host stops handing requests to the hook
hooksDestroy ==
    /\ boot.pc \in {"booted", "disabled"}
    /\ boot' = [boot EXCEPT !.pc = "destroyed"]
    /\ timers' = IF cleanupInterval # 0 THEN timers \ {cleanupInterval} ELSE timers
    /\ cache' = EmptyMap
    /\ UNCHANGED <<flt, ext, hp, mrg, mode, cleanupInterval, now, init, last, cfg, reqs, done>>


-----------------------------------------------------------------------------
(* Inputs of the merge-stage harness *)

NoMerge ==
    [ctx |-> Undef, bag |-> Undef, error |-> Undef, merges |-> 0, handled |-> FALSE,
     warnings |-> 0]

MergeIdle ==
    [pc |-> "idle", tenant |-> Null, ctx |-> Undef, bag |-> Undef, action |-> Undef,
     out |-> NoMerge]

\* tenant.config without its annotations
MergeConfigs ==
    LET MergeAppValues ==
            [k \in {"app", "branding"} |->
                IF k = "app"
                THEN {Obj([url |-> Str("u"), key |-> Str("s")]),
                      Obj([name |-> Str("n"), url |-> Str("u")])}
                ELSE {Obj([logo |-> Str("l")])}]
    IN ObjectsOver({"app", "branding"}, MergeAppValues)

\* the __visibility trees a backend attaches, one of which annotates the
\* __visibility key itself
MergeVisibilities ==
    LET MergeInnerLabels ==
            [k \in {"url", "key", "name"} |->
                CASE k = "url" ->
                        {Str("public"), Str("PUBLIC"), Str("protected"), Str("private")}
                  [] k = "key" -> {Str("public"), Str("private")}
                  [] OTHER -> {Str("public"), Null}]
        MergeVisibilityValues ==
            [k \in {"app", "branding", "__visibility"} |->
                CASE k = "app" ->
                        ObjectsOver({"url", "key", "name"}, MergeInnerLabels)
                            \cup {Str("public"), Str("private")}
                  [] k = "branding" ->
                        {Obj([logo |-> Str("protected")]), Obj([logo |-> Str("public")]),
                         Str("public"), Str("protected")}
                  [] OTHER -> {Str("public")}]
    IN ObjectsOver({"app", "branding", "__visibility"}, MergeVisibilityValues)

\* tenant.config: with a __visibility tree, with null in its place, without
MergeTenantConfigs ==
    {SetProp(c, "__visibility", v) : c \in MergeConfigs, v \in MergeVisibilities \cup {Null}}
        \cup MergeConfigs

MergeTenants == {MkTenant("t1", "acme", c) : c \in MergeTenantConfigs}

\* what resolveTenant may hand to the merge stage when no tenant resolved,
\* and the object a {data: null} body is taken for
MergeNonTenants == {Null, Str(""), Obj([data |-> Null])}

MergeContexts ==
    {Undef,
     Obj([startTime |-> Num(0),
          appConfig |-> Obj([app |-> Obj([name |-> Str("ssr"), url |-> Str("b")]),
                             session |-> Obj([cookie |-> Str("old_session")])])])}

MergeBags ==
    {Undef, BaseAppConfig, Obj([session |-> Obj([cookie |-> Str("")])]),
     Obj([session |-> Obj([cookie |-> Str("base_session"), xsrf_cookie |-> Str("XSRF")]),
          frontend |-> Obj([url |-> Str("b")])])}

MergeInputs ==
    {[pc |-> "ready", tenant |-> t, ctx |-> c, bag |-> b, action |-> a, out |-> NoMerge] :
        t \in MergeTenants, c \in MergeContexts, b \in MergeBags, a \in {Undef}}
    \cup
    {[pc |-> "ready", tenant |-> t, ctx |-> c, bag |-> b, action |-> a, out |-> NoMerge] :
        t \in MergeNonTenants, c \in MergeContexts, b \in MergeBags, a \in NotFoundActions}

\* resolveTenant has returned mrg.tenant; enrichWindowBag runs to its end
enrichWindowBagMerge ==
    /\ mrg.pc = "ready"
    /\ mrg' = [mrg EXCEPT !.pc = "done",
                 !.out = enrichWith(mrg.tenant, mrg.ctx, mrg.bag, mrg.action)]
    /\ UNCHANGED <<flt, ext, hp, cacheVars, hookVars>>


-----------------------------------------------------------------------------
(* The merge stage on a heap of objects: JavaScript objects have identity,   *)
(* so that a write through one reference is seen through every other. The    *)
(* heap is a sequence of objects (functions from keys to values), a value is  *)
(* a primitive of the kinds above or a reference Ref(a) to the a-th object.   *)

Ref(a) == [t |-> "ref", a |-> a]

HeapTruthy(v) == v.t = "ref" \/ Truthy(v)

\* o[k] on the heap: undefined when o is no object or lacks the key
HeapGet(h, o, k) == IF o.t = "ref" /\ k \in DOMAIN h[o.a] THEN h[o.a][k] ELSE Undef

\* o[k] = v on the heap
HeapSet(h, o, k, v) ==
    [h EXCEPT ![o.a] = [x \in DOMAIN h[o.a] \cup {k} |-> IF x = k THEN v ELSE h[o.a][x]]]

\* a new object with the fields f: the heap with it, and the reference to it
HeapNew(h, f) == [h |-> Append(h, f), v |-> Ref(Len(h) + 1)]

\* F applied to the value of v, which is computed once however often F uses it
Given(v, F(_)) == CHOOSE r \in {F(x) : x \in {v}} : TRUE

\* the value tree v laid out as objects of the heap
RECURSIVE HeapStore(_, _), HeapStoreFields(_, _, _, _)
HeapStore(h, v) ==
    IF v.t # "obj" THEN [h |-> h, v |-> v]
    ELSE Given(HeapStoreFields(h, v.f, DOMAIN v.f, <<>>), LAMBDA r : HeapNew(r.h, r.f))

HeapStoreFields(h, f, keys, acc) ==
    IF keys = {} THEN [h |-> h, f |-> acc]
    ELSE Given(CHOOSE x \in keys : TRUE, LAMBDA k :
         Given(HeapStore(h, f[k]), LAMBDA s :
         Given([x \in DOMAIN acc \cup {k} |-> IF x = k THEN s.v ELSE acc[x]], LAMBDA next :
         Given(keys \ {k}, LAMBDA rest :
             HeapStoreFields(s.h, f, rest, next)))))

\* the value tree that the value v of the heap stands for
RECURSIVE HeapLoad(_, _)
HeapLoad(h, v) ==
    IF v.t # "ref" THEN v
    ELSE Obj([k \in DOMAIN h[v.a] |-> HeapLoad(h, h[v.a][k])])

\* the objects of the heap that can be reached from the value v
RECURSIVE HeapReach(_, _)
HeapReach(h, v) ==
    IF v.t # "ref" THEN {}
    ELSE {v.a} \cup UNION {HeapReach(h, h[v.a][k]) : k \in DOMAIN h[v.a]}

\* filterByVisibilityKeys on the heap: the loop over the entries of the
\* visibility object; a leaf that is let through takes the config's value as
\* it is, a reference included
RECURSIVE filterByVisibilityKeysOnHeap(_, _, _, _), filterEntriesOnHeap(_, _, _, _, _, _)
filterByVisibilityKeysOnHeap(h, visibility, configData, minVisibility) ==
    filterEntriesOnHeap(h, visibility, configData, minVisibility,
                        DOMAIN h[visibility.a], <<>>)

filterEntriesOnHeap(h, visibility, configData, minVisibility, keys, filtered) ==
    IF keys = {} THEN HeapNew(h, filtered)
    ELSE Given(CHOOSE x \in keys : TRUE, LAMBDA key :
         Given(keys \ {key}, LAMBDA rest :
         LET visValue == h[visibility.a][key]
             childConfig == HeapGet(h, configData, key)
             with(v) == [x \in DOMAIN filtered \cup {key} |->
                            IF x = key THEN v ELSE filtered[x]]
         IN IF visValue.t = "ref"
            THEN IF childConfig.t # "ref"
                 THEN filterEntriesOnHeap(h, visibility, configData, minVisibility,
                                          rest, filtered)
                 ELSE Given(filterByVisibilityKeysOnHeap(h, visValue, childConfig,
                                                         minVisibility), LAMBDA child :
                      Given(IF DOMAIN child.h[child.v.a] # {} THEN with(child.v)
                            ELSE filtered, LAMBDA next :
                          filterEntriesOnHeap(child.h, visibility, configData,
                                              minVisibility, rest, next)))
            ELSE Given(IF isVisibilityAllowed(LeafLabel(visValue), minVisibility)
                       THEN with(OrNull(childConfig)) ELSE filtered, LAMBDA next :
                     filterEntriesOnHeap(h, visibility, configData, minVisibility,
                                         rest, next))))

\* a variant of extractPublicTenantConfig that deletes __visibility from
\* tenant.config instead of copying the other fields
extractPublicTenantConfigDeleting(h, tenant) ==
    LET config == HeapGet(h, tenant, "config")
        visibility == HeapGet(h, config, "__visibility")
    IN Given([h EXCEPT ![config.a] =
                 [k \in DOMAIN h[config.a] \ {"__visibility"} |-> h[config.a][k]]],
             LAMBDA deleted :
           IF visibility.t = "ref" /\ DOMAIN h[visibility.a] # {}
           THEN filterByVisibilityKeysOnHeap(deleted, visibility, config, Str("public"))
           ELSE HeapNew(deleted, <<>>))

\* extractPublicTenantConfig on the heap: configWithoutMeta is a new object
\* holding the fields of tenant.config other than __visibility
extractPublicTenantConfigOnHeap(h, tenant) ==
    LET config == HeapGet(h, tenant, "config")
        visibility == HeapGet(h, config, "__visibility")
    IN Given(HeapNew(h, [k \in DOMAIN h[config.a] \ {"__visibility"} |-> h[config.a][k]]),
             LAMBDA withoutMeta :
           IF visibility.t = "ref" /\ DOMAIN h[visibility.a] # {}
           THEN filterByVisibilityKeysOnHeap(withoutMeta.h, visibility,
                                             withoutMeta.v, Str("public"))
           ELSE HeapNew(withoutMeta.h, <<>>))

\* the heap with o[k] set to a new object of fields f unless o[k] is truthy
HeapEnsure(h, o, k, f) ==
    IF HeapTruthy(HeapGet(h, o, k)) THEN h
    ELSE Given(HeapNew(h, f), LAMBDA n : HeapSet(n.h, o, k, n.v))

\* one section of defaultMergeTenantConfig on the heap
mergeSectionOnHeap(h, baseConfig, tenantConfig, section, fields, blank) ==
    Given(HeapEnsure(h, baseConfig, section, blank), LAMBDA h1 :
        LET source == HeapGet(h, tenantConfig, section)
            target == HeapGet(h1, baseConfig, section)
            defined == {f \in fields : HeapGet(h1, source, f) # Undef}
        IN IF ~HeapTruthy(source) \/ target.t # "ref" THEN h
           ELSE [h1 EXCEPT ![target.a] =
                    [f \in DOMAIN h1[target.a] \cup defined |->
                        IF f \in defined THEN HeapGet(h1, source, f)
                        ELSE h1[target.a][f]]])

\* defaultMergeTenantConfig on the heap: the heap it leaves
defaultMergeTenantConfigOnHeap(h, baseConfig, tenantConfig) ==
    Given(mergeSectionOnHeap(h, baseConfig, tenantConfig, "app", AppFields,
                             [name |-> Str(""), url |-> Str("")]), LAMBDA merged :
        mergeSectionOnHeap(merged, baseConfig, tenantConfig, "frontend", FrontendFields,
                           [url |-> Str("")]))

\* buildSsrContext on the heap: req.quvelContext.tenant is the reference to
\* the record itself; the cookie names are strings computed from the record
buildSsrContextOnHeap(h, req, tenant) ==
    Given(HeapEnsure(h, req, "quvelContext", [startTime |-> Num(now)]), LAMBDA h1 :
    Given(HeapGet(h1, req, "quvelContext"), LAMBDA ctx :
    Given(HeapEnsure(HeapSet(h1, ctx, "tenant", tenant), ctx, "appConfig", <<>>), LAMBDA h2 :
    Given(HeapGet(h2, ctx, "appConfig"), LAMBDA appConfig :
    Given(extractPublicTenantConfigOnHeap(h2, tenant), LAMBDA pub :
    Given(defaultMergeTenantConfigOnHeap(pub.h, appConfig, pub.v), LAMBDA merged :
    Given(HeapEnsure(merged, appConfig, "session", <<>>), LAMBDA h3 :
    Given(HeapLoad(h3, tenant), LAMBDA record :
        LET session == HeapGet(h3, appConfig, "session")
        IN HeapSet(HeapSet(h3, session, "cookie", createTenantSessionCookieName(record)),
                   session, "xsrf_cookie", createTenantXsrfCookieName(record))))))))))

\* buildPublicConfig on the heap: bag is the WindowBag, whose __APP_CONFIG__
\* entry the call reads, changes in place and sets again
buildPublicConfigOnHeap(h, req, tenant, bag) ==
    Given(HeapGet(h, bag, "__APP_CONFIG__"), LAMBDA got :
    Given(IF HeapTruthy(got) THEN [h |-> h, v |-> got] ELSE HeapNew(h, <<>>), LAMBDA held :
    LET h0 == held.h
        config == held.v
        ctxSession == HeapGet(h0, HeapGet(h0, HeapGet(h0, req, "quvelContext"),
                                          "appConfig"), "session")
        xsrf == HeapGet(h0, ctxSession, "xsrf_cookie")
    IN
    Given(IF ~HeapTruthy(ctxSession) THEN h0
          ELSE Given(HeapEnsure(h0, config, "session", <<>>), LAMBDA e :
                   IF HeapTruthy(xsrf)
                   THEN HeapSet(e, HeapGet(e, config, "session"), "xsrf_cookie", xsrf)
                   ELSE e), LAMBDA h1 :
    Given(extractPublicTenantConfigOnHeap(h1, tenant), LAMBDA pub :
    Given(defaultMergeTenantConfigOnHeap(pub.h, config, pub.v), LAMBDA h2 :
    Given(HeapNew(h2,
              [id |-> HeapGet(h2, tenant, "id"), name |-> HeapGet(h2, tenant, "name"),
               identifier |-> HeapGet(h2, tenant, "identifier"),
               parent_id |-> HeapGet(h2, tenant, "parent_id"),
               is_active |-> HeapGet(h2, tenant, "is_active"),
               is_internal |-> HeapGet(h2, tenant, "is_internal"),
               config |-> pub.v]), LAMBDA shown :
    Given(HeapSet(shown.h, config, "tenant", shown.v), LAMBDA h3 :
    Given(IF HeapTruthy(HeapGet(h3, config, "trace"))
          THEN HeapSet(h3, HeapGet(h3, config, "trace"), "tenant", HeapGet(h3, tenant, "id"))
          ELSE h3, LAMBDA h4 :
    Given(HeapGet(h4, config, "session"), LAMBDA session :
    Given(IF HeapTruthy(HeapGet(h4, session, "cookie"))
          THEN Given(HeapNew(h4, [k \in DOMAIN h4[session.a] \ {"cookie"} |->
                                     h4[session.a][k]]), LAMBDA safeSession :
                   HeapSet(safeSession.h, config, "session", safeSession.v))
          ELSE h4, LAMBDA h5 :
        HeapSet(h5, bag, "__APP_CONFIG__", config)))))))))))

\* how many requests the cached record is handed to
MaxHits == 2

\* tenant.config of the cached records: the example with nested annotations,
\* a whole section annotated public (the filter then hands out the section
\* object itself), custom cookie names, and a config without annotations
HeapTenants ==
    LET HeapConfigs ==
        {BrandedConfig, PlainConfig,
         Obj([app |-> Obj([name |-> Str("n"), url |-> Str("u")]),
              frontend |-> Obj([url |-> Str("f")]),
              __visibility |-> Obj([app |-> Str("public"), frontend |-> Str("public")])]),
         Obj([app |-> Obj([name |-> Str("n"), url |-> Obj([host |-> Str("h")])]),
              session |-> Obj([name |-> Str("sid")]),
              __visibility |-> Obj([app |-> Obj([name |-> Str("public"), url |-> Str("public")]),
                                    session |-> Str("public")])]),
         Obj([app |-> Obj([url |-> Str("u")]), __visibility |-> Null]),
         Obj([app |-> Obj([url |-> Str("u")]), __visibility |-> EmptyObj])}
    IN {MkTenant("t1", "acme", c) : c \in HeapConfigs}

HeapIdle ==
    [pc |-> "idle", heap |-> <<>>, tenant |-> Undef, record |-> Undef, hits |-> 0,
     req |-> Undef, bag |-> Undef, ctx |-> Undef, config |-> Undef]

\* the cache holds one record, which no request has been handed yet
HeapInputs ==
    {LET s == HeapStore(<<>>, t)
     IN [pc |-> "cached", heap |-> s.h, tenant |-> s.v, record |-> t, hits |-> 0,
         req |-> Undef, bag |-> Undef, ctx |-> Undef, config |-> Undef] :
        t \in HeapTenants}

\* a request arrives with req.quvelContext = ctx and __APP_CONFIG__ = config
\* in its WindowBag, the cache hands resolveTenant the stored record, and
\* enrichWindowBag runs buildSsrContext and buildPublicConfig
enrichWindowBagHit(ctx, config) ==
    /\ hp.pc = "cached"
    /\ hp.hits < MaxHits
    /\ \E c \in {HeapStore(hp.heap, ctx)} :
       \E req \in {HeapNew(c.h, IF ctx = Undef THEN <<>> ELSE [quvelContext |-> c.v])} :
       \E b \in {HeapStore(req.h, config)} :
       \E bag \in {HeapNew(b.h, IF config = Undef THEN <<>>
                                ELSE [__APP_CONFIG__ |-> b.v])} :
       \E built \in {buildSsrContextOnHeap(bag.h, req.v, hp.tenant)} :
       \E h \in {buildPublicConfigOnHeap(built, req.v, hp.tenant, bag.v)} :
          hp' = [hp EXCEPT !.heap = h, !.hits = @ + 1, !.req = req.v, !.bag = bag.v,
                           !.ctx = ctx, !.config = config]
    /\ UNCHANGED <<flt, mrg, ext, cacheVars, hookVars>>


-----------------------------------------------------------------------------
(* Specifications *)

\* the filter functions applied to every input of the harness
InitFilter ==
    /\ flt \in FilterInputs
    /\ ext = ExtractIdle
    /\ hp = HeapIdle
    /\ mode = "lazy"
    /\ cache = EmptyMap
    /\ cleanupInterval = 0
    /\ timers = {}
    /\ now = 0
    /\ init = InitIdle
    /\ last = NoCall
    /\ cfg = HooksConfig(FALSE, "gateway", FALSE, "lazy", Undef)
    /\ boot = BootNew
    /\ reqs = <<>>
    /\ done = NoneDone
    /\ mrg = MergeIdle

NextFilter ==
    \/ CallFilterConfigByVisibility
    \/ CallFilterPublicConfig

SpecFilter == InitFilter /\ [][NextFilter]_vars

\* the merge stage applied to every input of the harness
InitMerge ==
    /\ flt = FilterIdle
    /\ ext = ExtractIdle
    /\ hp = HeapIdle
    /\ mrg \in MergeInputs
    /\ cfg = HooksConfig(FALSE, "gateway", FALSE, "lazy", Undef)
    /\ mode = "lazy"
    /\ cache = EmptyMap
    /\ cleanupInterval = 0
    /\ timers = {}
    /\ now = 0
    /\ init = InitIdle
    /\ last = NoCall
    /\ boot = BootNew
    /\ reqs = <<>>
    /\ done = NoneDone

NextMerge == enrichWindowBagMerge

SpecMerge == InitMerge /\ [][NextMerge]_vars

\* extractIdentifier applied to every input of the harness
InitExtract ==
    /\ flt = FilterIdle
    /\ mrg = MergeIdle
    /\ ext \in ExtractInputs
    /\ hp = HeapIdle
    /\ cfg = HooksConfig(FALSE, "gateway", FALSE, "lazy", Undef)
    /\ mode = "lazy"
    /\ cache = EmptyMap
    /\ cleanupInterval = 0
    /\ timers = {}
    /\ now = 0
    /\ init = InitIdle
    /\ last = NoCall
    /\ boot = BootNew
    /\ reqs = <<>>
    /\ done = NoneDone

NextExtract == CallExtractIdentifier

SpecExtract == InitExtract /\ [][NextExtract]_vars

\* a cached record handed to the merge stage of one request after another
InitHeap ==
    /\ flt = FilterIdle
    /\ ext = ExtractIdle
    /\ mrg = MergeIdle
    /\ hp \in HeapInputs
    /\ cfg = HooksConfig(FALSE, "gateway", FALSE, "lazy", Undef)
    /\ mode = "lazy"
    /\ cache = EmptyMap
    /\ cleanupInterval = 0
    /\ timers = {}
    /\ now = 0
    /\ init = InitIdle
    /\ last = NoCall
    /\ boot = BootNew
    /\ reqs = <<>>
    /\ done = NoneDone

NextHeap == \E ctx \in MergeContexts, config \in MergeBags : enrichWindowBagHit(ctx, config)

SpecHeap == InitHeap /\ [][NextHeap]_vars

\* a TenantCacheService of any mode, driven through its public methods
InitCache ==
    /\ flt = FilterIdle
    /\ ext = ExtractIdle
    /\ hp = HeapIdle
    /\ mode \in CacheModes
    /\ cache = EmptyMap
    /\ cleanupInterval = 0
    /\ timers = {}
    /\ now = 0
    /\ init = InitIdle
    /\ last = NoCall
    /\ cfg = HooksConfig(FALSE, "gateway", FALSE, "lazy", Undef)
    /\ boot = BootNew
    /\ reqs = <<>>
    /\ done = NoneDone
    /\ mrg = MergeIdle

NextCache ==
    \/ initializePreload
    \/ \E response \in BulkResponses : preloadSettle(response)
    \/ initializeLazy
    \/ initializeDisabled
    \/ \E key \in CacheKeys : get(key)
    \/ \E key \in CacheKeys, tenant \in Tenants : set(key, tenant)
    \/ \E key \in CacheKeys : delete(key)
    \/ clear
    \/ destroy
    \/ cleanupTick
    \/ Tick

SpecCache == InitCache /\ [][NextCache]_vars


\* a deployment: boot, then requests through the pre-render hook, with the
\* sweep timer and the clock running, until destroy
Init ==
    /\ flt = FilterIdle
    /\ ext = ExtractIdle
    /\ hp = HeapIdle
    /\ mrg = MergeIdle
    /\ cfg \in HooksConfigs
    /\ mode = constructedMode(cfg)
    /\ cache = EmptyMap
    /\ cleanupInterval = 0
    /\ timers = {}
    /\ now = 0
    /\ init = InitIdle
    /\ last = NoCall
    /\ boot = BootNew
    /\ reqs = <<>>
    /\ done = NoneDone

Next ==
    \/ bootDisabled
    \/ bootThrows
    \/ bootWithoutCache
    \/ bootLazy
    \/ bootPreload
    \/ \E response \in BulkResponses : bootSettle(response)
    \/ \E req \in Requests : enrichWindowBagBegin(req)
    \/ \E i \in RequestIds, response \in AllFetchResponses : enrichWindowBagResume(i, response)
    \/ hooksDestroy
    \/ cleanupTick
    \/ Tick

Spec == Init /\ [][Next]_vars


-----------------------------------------------------------------------------
(* Claims *)

\* an annotation that resolves to the public level
IsPublicAnnotation(v) == v \in {Str("public"), Str("PUBLIC")}

\* every key of `out` is annotated in `visibility`, down to an annotation leaf
RECURSIVE UnderAnnotationLeaf(_, _)
UnderAnnotationLeaf(out, visibility) ==
    \A k \in Keys(out) :
        /\ k \in Keys(visibility)
        /\ (IsPlainObject(visibility.f[k]) =>
                /\ IsPlainObject(out.f[k])
                /\ UnderAnnotationLeaf(out.f[k], visibility.f[k]))

\* every key of `out` lies under an annotation leaf of `visibility` that is public
RECURSIVE OnlyPublic(_, _)
OnlyPublic(out, visibility) ==
    \A k \in Keys(out) :
        /\ k \in Keys(visibility)
        /\ IF IsPlainObject(visibility.f[k])
           THEN /\ IsPlainObject(out.f[k])
                /\ OnlyPublic(out.f[k], visibility.f[k])
           ELSE IsPublicAnnotation(visibility.f[k])

\* some key __visibility inside v holds a tree
RECURSIVE HoldsVisibilityTree(_)
HoldsVisibilityTree(v) ==
    \E k \in Keys(v) :
        \/ k = "__visibility" /\ IsPlainObject(v.f[k])
        \/ HoldsVisibilityTree(v.f[k])

\* the annotation tree of the tenant the merge harness was given
MergedVisibility == Get(Get(mrg.tenant, "config"), "__visibility")

\* the merge stage ran for a resolved tenant and completed
Merged == mrg.pc = "done" /\ Truthy(mrg.tenant) /\ mrg.out.error = Undef

\* C1: after the merge stage for a resolved tenant (default merge handler) the
\* client payload's tenant.config holds only fields under a public annotation,
\* no key __visibility of the payload's tenant field holds a tree, every app
\* or frontend field the merge changed is annotated public, and the payload
\* gained no top-level key beyond tenant, app, frontend and session.
C1_PayloadOnlyPublic ==
    Merged =>
        LET payload == mrg.out.bag
        IN /\ OnlyPublic(Get(Get(payload, "tenant"), "config"), MergedVisibility)
           /\ ~HoldsVisibilityTree(Get(payload, "tenant"))
           /\ \A section \in {"app", "frontend"}, f \in AppFields \cup FrontendFields :
                 LET after == Get(Get(payload, section), f)
                 IN (after # Get(Get(mrg.bag, section), f) /\ after # Str("")) =>
                        \/ IsPublicAnnotation(Get(MergedVisibility, section))
                        \/ IsPublicAnnotation(Get(Get(MergedVisibility, section), f))
           /\ Keys(payload) \subseteq Keys(mrg.bag) \cup {"tenant", "app", "frontend", "session"}

\* C1 witness: branding.logo is annotated protected and app.url public; the
\* payload carries app.url and no branding key
C1_Witness ==
    /\ Merged
    /\ Get(MergedVisibility, "branding") = Obj([logo |-> Str("protected")])
    /\ Get(Get(mrg.tenant, "config"), "branding") = Obj([logo |-> Str("l")])
    /\ Get(Get(Get(mrg.out.bag, "tenant"), "config"), "app") = Obj([url |-> Str("u")])
    /\ "branding" \notin Keys(Get(Get(mrg.out.bag, "tenant"), "config"))
    /\ "branding" \notin Keys(mrg.out.bag)

\* C2: whatever the config, the visibility tree and the minimum level, every
\* key of the result of filterConfigByVisibility is annotated in the
\* visibility tree, so a config leaf without an annotation is never exposed.
C2_UnannotatedNeverExposed ==
    (flt.pc = "done" /\ flt.op = "filterConfigByVisibility") =>
        UnderAnnotationLeaf(flt.out.value, flt.visibility)

\* C2 witness: app.key has no annotation while app.url is public; the result
\* exposes app.url and leaves app.key out, at the lowest minimum level
C2_Witness ==
    /\ flt.pc = "done" /\ flt.op = "filterConfigByVisibility"
    /\ flt.minVisibility = Str("private")
    /\ Get(flt.config, "app") = Obj([url |-> Str("u"), key |-> Str("s")])
    /\ Get(flt.visibility, "app") = Obj([url |-> Str("public")])
    /\ Get(flt.out.value, "app") = Obj([url |-> Str("u")])


\* the expiration of a cache entry has passed at time n
Expired(entry, n) == ~entry.expiresAt.inf /\ n > entry.expiresAt.at

\* the store holds an entry for key k that a read at the present time serves
Live(k) ==
    /\ mode # "disabled"
    /\ k \in DOMAIN cache
    /\ (mode = "lazy" => ~Expired(cache[k], now))

\* the identifier the deployments' strategy extracts from each request
\* (Undef if none)
Extracted ==
    [req \in Requests |->
        LET e == extractIdentifier(req, SubdomainStrategy)
        IN IF e.threw \/ ~Truthy(e.value) THEN Undef ELSE e.value]

IdentifierOf(req) == Extracted[req]

\* the step is the arrival of req at the hook
Arrives(req) == cfg.strategy = SubdomainStrategy /\ enrichWindowBagBegin(req)

\* C3: a request whose extracted identifier has a live cache entry completes
\* in the same step with the cached record, having asked the backend zero
\* times: it is not among the requests awaiting the backend.
C3_CacheHitNeverFetches ==
    [][\A req \in Requests :
          (IdentifierOf(req) # Undef /\ Live(IdentifierOf(req).v) /\ Arrives(req)) =>
            /\ done'.req = req
            /\ done'.route = "cache"
            /\ done'.tenant = cache[IdentifierOf(req).v].tenant
            /\ done'.fetches = 0
            /\ reqs' = reqs]_vars

\* C3 witness: under preload, the request for acme was served the preloaded
\* record without a fetch
C3_Witness ==
    /\ mode = "preload"
    /\ done.route = "cache" /\ done.fetches = 0
    /\ done.identifier = Str("acme") /\ done.tenant = TenantAcme
    /\ reqs = <<>>

\* a value with the fields of a tenant record
IsTenantRecord(t) ==
    IsPlainObject(t) /\ {"id", "identifier", "config"} \subseteq Keys(t)

\* C4: every completed resolveTenant returned without raising, and what it
\* returned is a tenant record or null.
C4_TenantRecordOrNull ==
    done.route # "none" =>
        /\ ~done.raised
        /\ (done.tenant = Null \/ IsTenantRecord(done.tenant))

\* the backend answered without a tenant: a failure, a null or an empty body
NoTenantIn(response) == ~response.ok \/ response.data \in {Null, Undef, Str("")}

\* C5: no request asks the backend more than once; a request whose fetch
\* fails or finds no tenant completes leaving the cache as it was; and a
\* request whose identifier has no live entry asks the backend itself.
C5_OneFetchNoNegativeCache ==
    /\ [](done.fetches <= 1 /\ \A i \in 1 .. Len(reqs) : reqs[i].fetches = 1)
    /\ [][/\ \A i \in 1 .. Len(reqs) : \A response \in FetchResponses(reqs[i].identifier) :
               ((NoTenantIn(response) \/ done'.route \in {"apiError", "notFound"})
                   /\ enrichWindowBagResume(i, response)) =>
                 /\ cache' = cache
                 /\ done'.route \in {"apiError", "notFound"}
                 /\ ~Truthy(done'.tenant)
                 /\ done'.fetches = 1
          /\ \A req \in Requests :
               (IdentifierOf(req) # Undef /\ ~Live(IdentifierOf(req).v)
                   /\ Arrives(req)) =>
                 /\ reqs' = Append(reqs, InFlight(req, IdentifierOf(req), 1))
                 /\ done' = done]_vars

\* C5 witness: the request for acme failed after one fetch, nothing was
\* stored, and another request for acme is asking the backend
C5_Witness ==
    /\ mode = "lazy"
    /\ done.route = "apiError" /\ done.fetches = 1 /\ done.identifier = Str("acme")
    /\ "acme" \notin DOMAIN cache
    /\ Len(reqs) = 1 /\ reqs[1].identifier = Str("acme") /\ reqs[1].fetches = 1

\* C6: under lazy mode, a fetch that answers with a tenant stores it under
\* the extracted identifier with expiration now + ttl; an entry stays in the
\* store until its expiration has passed (destroy aside); and a request whose
\* identifier has such an entry is served it without asking the backend.
C6_LazyStoreThenHit ==
    [][mode = "lazy" =>
        /\ \A i \in 1 .. Len(reqs), t \in Tenants :
           \A response \in FetchResponses(reqs[i].identifier) :
             (response \in {Responded(t), Responded(Obj([data |-> t]))}
                 /\ enrichWindowBagResume(i, response)) =>
               /\ reqs[i].identifier.v \in DOMAIN cache'
               /\ cache'[reqs[i].identifier.v] = CacheEntry(t, Instant(now + Ttl))
               /\ done'.route = "api" /\ done'.tenant = t
        /\ ~hooksDestroy =>
             \A k \in DOMAIN cache :
                ~Expired(cache[k], now') =>
                    /\ k \in DOMAIN cache'
                    /\ cache'[k].expiresAt.at >= cache[k].expiresAt.at
        /\ \A req \in Requests :
             (IdentifierOf(req) # Undef
                 /\ IdentifierOf(req).v \in DOMAIN cache
                 /\ ~Expired(cache[IdentifierOf(req).v], now)
                 /\ Arrives(req)) =>
               /\ done'.tenant = cache[IdentifierOf(req).v].tenant
               /\ done'.route = "cache" /\ done'.fetches = 0
               /\ reqs' = reqs /\ cache' = cache]_vars

\* C6 witness: under lazy mode the record fetched for acme is in the store
\* under "acme", the clock has advanced since it was stored, and the latest
\* request for acme was served from the store without a fetch
C6_Witness ==
    /\ mode = "lazy"
    /\ "acme" \in DOMAIN cache
    /\ cache["acme"].tenant = TenantAcme
    /\ now > cache["acme"].expiresAt.at - Ttl
    /\ ~Expired(cache["acme"], now)
    /\ done.route = "cache" /\ done.fetches = 0 /\ done.tenant = TenantAcme
    /\ done.identifier = Str("acme")


\* C7: under lazy mode, a get that directly follows set(k, v) at the same
\* instant returns v; a get of an entry whose expiration has passed returns
\* null and removes that entry alone; and whatever get returns is the record
\* of an entry whose expiration has not passed.
C7_LazyExpiresOnRead ==
    [][mode = "lazy" =>
        \A key \in CacheKeys :
            get(key) =>
                /\ (last.op = "set" /\ last.key = key /\ last.at = now) =>
                        last'.ret = last.tenant
                /\ (key \in DOMAIN cache /\ Expired(cache[key], now)) =>
                        /\ last'.ret = Null
                        /\ key \notin DOMAIN cache'
                        /\ MapSize(cache') = MapSize(cache) - 1
                        /\ \A k \in DOMAIN cache' : cache'[k] = cache[k]
                /\ last'.ret # Null =>
                        /\ key \in DOMAIN cache
                        /\ last'.ret = cache[key].tenant
                        /\ ~Expired(cache[key], now)
                        /\ cache' = cache]_vars

\* C7 witness: no sweep timer exists, globex's entry has outlived its ttl
\* and is still stored, and the get of acme after its ttl found nothing and
\* left no entry for acme
C7_Witness ==
    /\ mode = "lazy" /\ timers = {}
    /\ last.op = "get" /\ last.key = "acme" /\ last.ret = Null
    /\ "acme" \notin DOMAIN cache
    /\ "globex" \in DOMAIN cache /\ Expired(cache["globex"], now)

\* C8: under disabled mode the store is empty in every state and every get
\* returned null.
C8_DisabledStoresNothing ==
    mode = "disabled" =>
        /\ cache = EmptyMap
        /\ (last.op = "get" => last.ret = Null)

\* C8 witness: under disabled mode, after an initialize, a set has just
\* returned and the store is empty
C8_Witness ==
    /\ mode = "disabled"
    /\ init.returned > 0
    /\ last.op = "set" /\ last.tenant = TenantAcme
    /\ cache = EmptyMap

\* C9: under preload mode every entry has unbounded expiration, a get of a
\* stored key returns its record whatever the time, and an entry leaves the
\* store only in a delete, clear or destroy step.
C9_PreloadNeverExpires ==
    /\ [](mode = "preload" => \A k \in DOMAIN cache : cache[k].expiresAt = Infinity)
    /\ [][mode = "preload" =>
            /\ \A key \in CacheKeys :
                 (get(key) /\ key \in DOMAIN cache) =>
                     last'.ret = cache[key].tenant /\ cache' = cache
            /\ (\E k \in DOMAIN cache : k \notin DOMAIN cache') =>
                 ((\E key \in CacheKeys : delete(key)) \/ clear \/ destroy)]_vars

\* C9 witness: under preload, at the latest time of the model, with a sweep
\* of the clock behind it, the store holds a preloaded entry and an entry
\* made by set, and get has just returned acme's record
C9_Witness ==
    /\ mode = "preload" /\ now = MaxTime
    /\ last.op = "get" /\ last.key = "acme" /\ last.ret = TenantAcme
    /\ "t3" \in DOMAIN cache /\ cache["t3"].expiresAt = Infinity
    /\ cache["acme"].expiresAt = Infinity

\* the records of a bulk response, in order (none if it carries no list)
BulkRecords(response) ==
    IF ~response.ok THEN <<>>
    ELSE IF response.data.t = "arr" THEN response.data.items
    ELSE IF IsPlainObject(response.data) /\ Get(response.data, "data").t = "arr"
    THEN Get(response.data, "data").items
    ELSE <<>>

\* C10: under preload mode every initialize asks the backend once and never
\* raises; when the bulk request and its processing succeed, every returned
\* record is stored under its identifier (its id if the identifier is falsy)
\* with unbounded expiration; when either fails, the store is left as it was
\* before the response arrived.
C10_PreloadAllOrNothing ==
    /\ [](mode = "preload" => init.fetches = init.calls /\ init.raised = 0)
    /\ [][\A response \in BulkResponses :
            preloadSettle(response) =>
                IF preloadTenants(cache, response).failed
                THEN cache' = cache
                ELSE \A i \in 1 .. Len(BulkRecords(response)) :
                        LET key == preloadKey(BulkRecords(response)[i])
                        IN /\ key \in DOMAIN cache'
                           /\ cache'[key].expiresAt = Infinity
                           /\ \E j \in 1 .. Len(BulkRecords(response)) :
                                 cache'[key].tenant = BulkRecords(response)[j]]_vars

\* C11: whatever calls came before, a destroy leaves no sweep timer active
\* and the store empty, and a destroy that directly follows a destroy
\* changes nothing.
C11_DestroyStopsEverySweep ==
    [][destroy =>
        /\ timers' = {}
        /\ cache' = EmptyMap
        /\ (last.op = "destroy" => timers' = timers /\ cache' = cache)]_vars

\* the total order private(1) < protected(2) < public(3)
Rank(label) ==
    IF label = Str("private") THEN 1
    ELSE IF label = Str("protected") THEN 2
    ELSE IF label = Str("public") THEN 3
    ELSE 0

\* every leaf of the visibility tree is one of the three labels
RECURSIVE Recognised(_)
Recognised(visibility) ==
    \A k \in Keys(visibility) :
        IF IsPlainObject(visibility.f[k])
        THEN Recognised(visibility.f[k])
        ELSE Rank(visibility.f[k]) > 0

\* the reference recursion over the visibility tree
RECURSIVE Reference(_, _, _)
Reference(visibility, config, minLevel) ==
    LET leaves == {k \in Keys(visibility) : ~IsPlainObject(visibility.f[k])}
        branches == Keys(visibility) \ leaves
        below(k) == Reference(visibility.f[k], Get(config, k), minLevel)
        inLeaves == {k \in leaves : Rank(visibility.f[k]) >= Rank(minLevel)}
        inBranches == {k \in branches :
                          IsPlainObject(Get(config, k)) /\ below(k) # EmptyObj}
    IN Obj([k \in inLeaves \cup inBranches |->
               IF k \in inBranches THEN below(k)
               ELSE IF k \in Keys(config) /\ config.f[k] # Undef THEN config.f[k]
               ELSE Null])

ExampleConfig ==
    Obj([app |-> Obj([url |-> Str("u"), key |-> Str("s")]),
         frontend |-> Obj([url |-> Str("f")])])

ExampleVisibility ==
    Obj([app |-> Obj([url |-> Str("public"), key |-> Str("private")]),
         frontend |-> Obj([url |-> Str("public")])])

\* C12: on every visibility tree whose leaves are private, protected or
\* public, filterConfigByVisibility returns what the reference recursion
\* returns; on the documented example at minimum public it returns exactly
\* {app: {url: u}, frontend: {url: f}}.
C12_FilterEqualsReference ==
    (flt.pc = "done" /\ flt.op = "filterConfigByVisibility") =>
        /\ Recognised(flt.visibility) =>
              flt.out = Returned(Reference(flt.visibility, flt.config, flt.minVisibility))
        /\ (flt.config = ExampleConfig /\ flt.visibility = ExampleVisibility
                /\ flt.minVisibility = Str("public")) =>
              flt.out.value = Obj([app |-> Obj([url |-> Str("u")]),
                                   frontend |-> Obj([url |-> Str("f")])])

\* C12 witness: the documented example filtered at minimum public
C12_Witness ==
    /\ flt.pc = "done" /\ flt.op = "filterConfigByVisibility"
    /\ flt.config = ExampleConfig /\ flt.visibility = ExampleVisibility
    /\ flt.minVisibility = Str("public")
    /\ flt.out.value = Obj([app |-> Obj([url |-> Str("u")]),
                            frontend |-> Obj([url |-> Str("f")])])

\* the visibility tree with every leaf that is missing, or is not a level in
\* any spelling, replaced by private
RECURSIVE AsPrivate(_)
AsPrivate(visibility) ==
    IF ~IsPlainObject(visibility) THEN visibility
    ELSE Obj([k \in Keys(visibility) |->
               IF IsPlainObject(visibility.f[k]) THEN AsPrivate(visibility.f[k])
               ELSE IF visibility.f[k].t = "str"
                       /\ Rank(Str(ToLowerCase(visibility.f[k].v))) > 0
               THEN visibility.f[k]
               ELSE Str("private")])

\* C13: at every minimum level the result of filterConfigByVisibility is the
\* result it gives when each leaf whose label is missing or unrecognised is
\* labelled private instead.
C13_UnrecognisedIsPrivate ==
    (flt.pc = "done" /\ flt.op = "filterConfigByVisibility") =>
        flt.out = Returned(filterConfigByVisibility(flt.config, AsPrivate(flt.visibility),
                                                    flt.minVisibility))

\* C14: filterPublicConfig throws, whatever the config, when the visibility
\* tree is absent or an empty object, and otherwise returns
\* filterConfigByVisibility at minimum public.
C14_PublicFilterNeedsVisibility ==
    (flt.pc = "done" /\ flt.op = "filterPublicConfig") =>
        IF flt.visibility \in {Null, Undef, EmptyObj}
        THEN flt.out.threw
        ELSE flt.out = Returned(filterConfigByVisibility(flt.config, flt.visibility,
                                                         Str("public")))

\* C14 witness: a config with fields, an empty visibility tree, and the
\* call has thrown
C14_Witness ==
    /\ flt.pc = "done" /\ flt.op = "filterPublicConfig"
    /\ flt.config = ExampleConfig
    /\ flt.visibility = EmptyObj
    /\ flt.out.threw

\* the app and frontend sections of a configuration view
Sections(config) == <<Get(config, "app"), Get(config, "frontend")>>

\* C15: when the resolved tenant's config has no __visibility tree, or null
\* or an empty object in its place, the merge stage completes without an
\* error, logs the warning at each of its two extractions, leaves the app
\* and frontend sections of the per-request view and of the client payload
\* as they were, and writes an empty tenant.config on the payload.
C15_NoAnnotationsNothingExposed ==
    (mrg.pc = "done" /\ IsTenantRecord(mrg.tenant)
        /\ MergedVisibility \in {Undef, Null, EmptyObj}) =>
        /\ mrg.out.error = Undef
        /\ mrg.out.warnings = 2
        /\ Get(Get(mrg.out.bag, "tenant"), "config") = EmptyObj
        /\ Sections(mrg.out.bag) = Sections(mrg.bag)
        /\ Sections(Get(mrg.out.ctx, "appConfig")) = Sections(Get(mrg.ctx, "appConfig"))

\* C15 witness: a tenant whose config carries app.url and no annotations was
\* merged into the prepared payload, whose app section is unchanged
C15_Witness ==
    /\ mrg.pc = "done" /\ IsTenantRecord(mrg.tenant)
    /\ "__visibility" \notin Keys(Get(mrg.tenant, "config"))
    /\ Get(Get(Get(mrg.tenant, "config"), "app"), "url") = Str("u")
    /\ mrg.bag = BaseAppConfig
    /\ Get(mrg.out.bag, "app") = Get(BaseAppConfig, "app")
    /\ Get(Get(mrg.out.bag, "tenant"), "config") = EmptyObj
    /\ mrg.out.warnings = 2

PublicTenantFields ==
    {"id", "name", "identifier", "parent_id", "is_active", "is_internal"}

\* the public-filtered fields of a tenant's config
PublicFields(tenant) ==
    IF MergedVisibility \in {Undef, Null, EmptyObj} THEN EmptyObj
    ELSE filterConfigByVisibility(Omit(Get(tenant, "config"), "__visibility"),
                                  MergedVisibility, Str("public"))

C17_SessionCookieStripped ==
    Merged =>
        LET session == Get(mrg.out.bag, "session")
            viewSession == Get(Get(mrg.out.ctx, "appConfig"), "session")
        IN /\ ~Truthy(Get(session, "cookie"))
           /\ Get(session, "cookie") = Get(Get(mrg.bag, "session"), "cookie")
                 \/ "cookie" \notin Keys(session)
           /\ Truthy(Get(viewSession, "xsrf_cookie"))
           /\ Get(viewSession, "xsrf_cookie") = createTenantXsrfCookieName(mrg.tenant)
           /\ Get(session, "xsrf_cookie") = Get(viewSession, "xsrf_cookie")

\* C17 witness: the payload came with session.cookie = base_session and
\* leaves with a session that holds the tenant's XSRF cookie name alone
C17_Witness ==
    /\ Merged
    /\ Get(Get(mrg.bag, "session"), "cookie") = Str("base_session")
    /\ Get(mrg.out.bag, "session") = Obj([xsrf_cookie |-> Str("tenant_t1_xsrf")])
    /\ Get(Get(Get(mrg.out.ctx, "appConfig"), "session"), "cookie") = Str("tenant_t1_session")

\* the known sub-fields of a section
KnownFields(section) == IF section = "app" THEN AppFields ELSE FrontendFields

\* C18: after the merge stage for a resolved tenant, a known sub-field of
\* app or frontend that the tenant's config does not carry has on the client
\* payload the value the base configuration had (or the blank "" of a
\* section the merge had to create).
C18_AbsentFieldKeepsBase ==
    Merged =>
        \A section \in {"app", "frontend"} : \A f \in KnownFields(section) :
            Get(Get(Get(mrg.tenant, "config"), section), f) = Undef =>
                LET before == Get(Get(mrg.bag, section), f)
                    after == Get(Get(mrg.out.bag, section), f)
                IN \/ after = before
                   \/ ~Truthy(Get(mrg.bag, section)) /\ after = Str("")

\* C19: under the render policy the merge stage for an unresolved tenant
\* completes without an error and leaves a per-request context whose tenant
\* field is null.
C19_RenderMarksTenantNull ==
    (mrg.pc = "done" /\ ~Truthy(mrg.tenant)
        /\ Get(mrg.action, "type") = Str("render")) =>
        /\ mrg.out.error = Undef
        /\ IsPlainObject(mrg.out.ctx)
        /\ "tenant" \in Keys(mrg.out.ctx)
        /\ mrg.out.ctx.f["tenant"] = Null

\* the request completed without a tenant
Unresolved == done.route \in {"noIdentifier", "fault", "apiError", "notFound"}

\* C20: under a redirect policy every request that completes without a
\* tenant, whether no identifier could be extracted, the backend call
\* failed or the backend had no tenant, is rejected with an error whose url
\* is the configured url and whose code is the configured code, or 302 when
\* none is configured.
C20_RedirectCarriesUrlAndCode ==
    (Unresolved /\ Get(cfg.onTenantNotFound, "type") = Str("redirect")) =>
        /\ IsPlainObject(done.error)
        /\ Get(done.error, "url") = Get(cfg.onTenantNotFound, "url")
        /\ Get(done.error, "code") =
              IF "code" \in Keys(cfg.onTenantNotFound)
              THEN cfg.onTenantNotFound.f["code"] ELSE Num(302)
        /\ done.bag = BaseAppConfig /\ done.ctx = Undef

\* C20 witness: the policy is redirect to /gone with code 301, the backend
\* call failed, and the request was rejected with url /gone and code 301
C20_Witness ==
    /\ cfg.onTenantNotFound =
          Obj([type |-> Str("redirect"), url |-> Str("/gone"), code |-> Num(301)])
    /\ done.route = "apiError" /\ done.fetches = 1
    /\ Get(done.error, "url") = Str("/gone")
    /\ Get(done.error, "code") = Num(301)

\* C21: when no not-found policy is configured, or the policy is 404, every
\* request that completes without a tenant is rejected with an error whose
\* code is 404, and neither view is touched.
C21_NotFoundCarries404 ==
    (Unresolved /\ (cfg.onTenantNotFound = Undef
                       \/ Get(cfg.onTenantNotFound, "type") = Str("404"))) =>
        /\ IsPlainObject(done.error)
        /\ Get(done.error, "code") = Num(404)
        /\ done.bag = BaseAppConfig /\ done.ctx = Undef

\* C21 witness: no policy is configured, the backend answered with an empty
\* body, and the request was rejected with code 404
C21_Witness ==
    /\ cfg.onTenantNotFound = Undef
    /\ done.route = "notFound" /\ done.fetches = 1
    /\ Get(done.error, "code") = Num(404)

\* C22: when the backend answers a request in flight with a null body or
\* with {data: null}, the request completes as not-found through the warning
\* path (not the error path), with a null tenant, and the cache is left as
\* it was.
C22_NoTenantBodyIsNotFound ==
    [][\A i \in 1 .. Len(reqs) :
         \A response \in {Responded(Null), Responded(Obj([data |-> Null]))} :
           enrichWindowBagResume(i, response) =>
             /\ done'.route = "notFound"
             /\ done'.tenant = Null
             /\ cache' = cache]_vars

\* C23: resolveTenantByIdentifier returns for every way the HTTP call can
\* settle: from a failed call a result with tenant null and an error, from
\* a call that succeeded a result without an error.
C23_ResultErrorIffCallFailed ==
    [][\A i \in 1 .. Len(reqs) : \A response \in FetchResponses(reqs[i].identifier) :
         enrichWindowBagResume(i, response) =>
           LET result == resolveTenantByIdentifier(response)
           IN /\ ~response.ok => (result.tenant = Null /\ result.error)
              /\ response.ok => ~result.error]_vars

\* the extraction harness has applied the strategy `kind` to its request
Extracts(kind) == ext.pc = "done" /\ ext.strategy.strategy = kind

\* the domain of the harness's request is d
DomainIs(d) == extractDomain(ext.req) = Str(d)

\* C24 as stated: with the subdomain strategy at level 0, the host a.b.com
\* yields no identifier and the host x.a.b.com yields "x".
C24_ThreeLabelsAbsent ==
    (Extracts("subdomain") /\ ext.strategy.subdomainLevel = 0) =>
        /\ DomainIs("a.b.com") => ext.out = Returned(Null)
        /\ DomainIs("x.a.b.com") => ext.out = Returned(Str("x"))

\* C24 as amended: with the subdomain strategy at level 0, the host a.b.com
\* yields "a" and the host x.a.b.com yields "x".
C24_FirstLabelAtLevelZero ==
    (Extracts("subdomain") /\ ext.strategy.subdomainLevel = 0) =>
        /\ DomainIs("a.b.com") => ext.out = Returned(Str("a"))
        /\ DomainIs("x.a.b.com") => ext.out = Returned(Str("x"))

\* C24 witness: level 0 applied to a request for a.b.com returned "a"
C24_Witness ==
    /\ Extracts("subdomain") /\ ext.strategy.subdomainLevel = 0
    /\ ext.req.host = Str("a.b.com") /\ ext.req.forwardedHost = Undef
    /\ ext.out = Returned(Str("a"))

\* the k-th smallest element of a set of numbers, counting from 0
KthOf(S, k) == CHOOSE b \in S : Cardinality({c \in S : c < b}) = k

\* the positions in s at which the separator stands
SeparatorsAt(s, sep) == {i \in 1 .. Len(s) : SubSeq(s, i, i) = sep}

LabelCount(d) == Cardinality(SeparatorsAt(d, ".")) + 1

\* the k-th dot-separated label of d, counting from 0: what stands between
\* the k-th and the next of the dots and the two ends
LabelAt(d, k) ==
    LET ends == {0, Len(d) + 1} \cup SeparatorsAt(d, ".")
    IN SubSeq(d, KthOf(ends, k) + 1, KthOf(ends, k + 1) - 1)

\* C25: with the subdomain(level) strategy and a request that has a domain,
\* the identifier is absent when the domain has at most 2 labels; otherwise
\* it is the label at position level when 0 <= level < labelCount - 2, and
\* absent for any other level. acme.myapp.com at level 0 gives acme and
\* app.acme.myapp.com at level 1 gives acme.
C25_SubdomainLabelAtLevel ==
    (Extracts("subdomain") /\ extractDomain(ext.req).t = "str") =>
        LET d == extractDomain(ext.req).v
            level == ext.strategy.subdomainLevel
        IN /\ ext.out =
                IF LabelCount(d) <= 2 THEN Returned(Null)
                ELSE IF 0 <= level /\ level < LabelCount(d) - 2
                     THEN Returned(Str(LabelAt(d, level)))
                     ELSE Returned(Null)
           /\ (d = "acme.myapp.com" /\ level = 0) => ext.out = Returned(Str("acme"))
           /\ (d = "app.acme.myapp.com" /\ level = 1) => ext.out = Returned(Str("acme"))

\* C25 witness: level 1 applied to app.acme.myapp.com returned "acme"
C25_Witness ==
    /\ Extracts("subdomain") /\ ext.strategy.subdomainLevel = 1
    /\ DomainIs("app.acme.myapp.com")
    /\ ext.out = Returned(Str("acme"))

\* the positions in p at which a non-empty segment begins
SegmentStarts(p) ==
    {i \in 1 .. Len(p) :
        SubSeq(p, i, i) # "/" /\ (i = 1 \/ SubSeq(p, i - 1, i - 1) = "/")}

\* the k-th non-empty segment of p, counting from 0
SegmentAt(p, k) ==
    LET from == KthOf(SegmentStarts(p), k)
        to == KthOf({j \in from .. Len(p) :
                        j = Len(p) \/ SubSeq(p, j + 1, j + 1) = "/"}, 0)
    IN SubSeq(p, from, to)

\* C26: with the path(index) strategy the identifier is the index-th
\* non-empty segment of the request path when 0 <= index < segmentCount and
\* absent otherwise; for index 1, /t/dashboard gives dashboard and /t gives
\* no identifier.
C26_PathSegmentAtIndex ==
    Extracts("path") =>
        LET p == ext.req.path
            index == ext.strategy.pathIndex
        IN /\ ext.out =
                IF 0 <= index /\ index < Cardinality(SegmentStarts(p))
                THEN Returned(Str(SegmentAt(p, index)))
                ELSE Returned(Null)
           /\ (p = "/t/dashboard" /\ index = 1) => ext.out = Returned(Str("dashboard"))
           /\ (p = "/t" /\ index = 1) => ext.out = Returned(Null)

\* C26 witness: index 1 applied to /t/dashboard returned "dashboard"
C26_Witness ==
    /\ Extracts("path") /\ ext.strategy.pathIndex = 1
    /\ ext.req.path = "/t/dashboard"
    /\ ext.out = Returned(Str("dashboard"))

\* C27: in a deployment that is enabled in gateway mode and whose HTTP client
\* has no baseURL, boot never gets past its check: the cache is never
\* initialized, the pre-render hook is never registered, and no request is
\* ever taken up or completed.
C27_GatewayNeedsBaseUrl ==
    (cfg.enabled /\ cfg.resolutionMode = "gateway" /\ ~cfg.baseURL) =>
        /\ boot.pc \in {"new", "failed"} /\ ~boot.hook
        /\ init = InitIdle /\ timers = {} /\ cache = EmptyMap
        /\ reqs = <<>> /\ done = NoneDone

\* C27 witness: boot of the gateway deployment without a baseURL has thrown
C27_Witness ==
    /\ cfg.enabled /\ cfg.resolutionMode = "gateway" /\ ~cfg.baseURL
    /\ boot.pc = "failed" /\ ~boot.hook /\ init.calls = 0

\* C28: a request from which no identifier is extracted completes in the
\* step of its arrival with a null tenant, without asking the backend, and
\* with the cache and the requests in flight as they were.
C28_NoIdentifierEndsAtOnce ==
    [][\A req \in Requests :
         (IdentifierOf(req) = Undef /\ Arrives(req)) =>
           /\ done'.req = req
           /\ done'.route \in {"noIdentifier", "fault"}
           /\ done'.tenant = Null
           /\ done'.fetches = 0
           /\ cache' = cache
           /\ reqs' = reqs]_vars

\* C28 witness: with acme in the lazy cache and a request for it in flight,
\* the request for the bare domain completed without an identifier
C28_Witness ==
    /\ mode = "lazy" /\ "acme" \in DOMAIN cache
    /\ Len(reqs) = 1
    /\ done.route = "noIdentifier" /\ done.req.host = Str("myapp.com")
    /\ done.tenant = Null /\ done.fetches = 0

\* the entry a set of `tenant` at time `at` writes under the present mode
Written(tenant, at) ==
    CacheEntry(tenant, IF mode = "preload" THEN Infinity ELSE Instant(at + Ttl))

\* C29: under every interleaving of get, set, delete, sweep and clock steps,
\* each entry of the store is a whole pair of a tenant handed to the cache
\* (by a set or by the preload) and an expiration; a set replaces the entry
\* of its key by the pair it writes and leaves the other keys alone; no step other than a set on the
\* key (or the preload) alters an entry that stays; and as long as no other
\* call followed it, the latest set's pair is what its key holds, unless the
\* pair has expired and was swept.
C29_LastWriteWins ==
    /\ [](/\ \A k \in DOMAIN cache :
                \E t \in Tenants \cup {TenantNoIdentifier},
                   e \in {Infinity} \cup {Instant(n) : n \in 0 .. MaxTime + Ttl} :
                    cache[k] = CacheEntry(t, e)
          /\ (last.op = "set" /\ mode # "disabled") =>
                IF last.key \in DOMAIN cache
                THEN cache[last.key] = Written(last.tenant, last.at)
                ELSE mode = "lazy" /\ IsAfter(now, Instant(last.at + Ttl)))
    /\ [][/\ \A key \in CacheKeys, tenant \in Tenants :
               (mode # "disabled" /\ set(key, tenant)) =>
                 /\ DOMAIN cache' = DOMAIN cache \cup {key}
                 /\ cache'[key] = Written(tenant, now)
                 /\ \A k \in DOMAIN cache \ {key} : cache'[k] = cache[k]
          /\ \A k \in DOMAIN cache' :
               \/ k \in DOMAIN cache /\ cache'[k] = cache[k]
               \/ \E tenant \in Tenants : set(k, tenant)
               \/ \E response \in BulkResponses : preloadSettle(response)]_vars

\* C29 witness: under lazy mode with the sweep running and globex stored, the
\* key acme was set again at time 1 and holds the pair written then
C29_Witness ==
    /\ mode = "lazy" /\ timers # {} /\ now = 1
    /\ last.op = "set" /\ last.key = "acme" /\ last.tenant = TenantGlobex /\ last.at = 1
    /\ "globex" \in DOMAIN cache
    /\ cache["acme"] = CacheEntry(TenantGlobex, Instant(1 + Ttl))

\* C30: a request that finds no live entry for its identifier while another
\* request for the same identifier is awaiting the backend starts a fetch of
\* its own; every request in flight has issued exactly one fetch and every
\* request the backend answered completes having issued exactly one; and
\* each answer carrying a tenant writes the cache anew (where the cache
\* stores at all) and completes that request alone.
C30_FetchesNotCoalesced ==
    /\ [](/\ \A i \in 1 .. Len(reqs) : reqs[i].fetches = 1
          /\ done.route \in {"api", "apiError", "notFound"} => done.fetches = 1)
    /\ [][/\ \A req \in Requests :
               (/\ IdentifierOf(req) # Undef /\ ~Live(IdentifierOf(req).v)
                /\ \E i \in 1 .. Len(reqs) : reqs[i].identifier = IdentifierOf(req)
                /\ Arrives(req)) =>
                 /\ reqs' = Append(reqs, InFlight(req, IdentifierOf(req), 1))
                 /\ done' = done
          /\ \A i \in 1 .. Len(reqs), t \in Tenants :
             \A response \in FetchResponses(reqs[i].identifier) :
               (response \in {Responded(t), Responded(Obj([data |-> t]))}
                   /\ enrichWindowBagResume(i, response)) =>
                 /\ mode # "disabled" =>
                      /\ reqs[i].identifier.v \in DOMAIN cache'
                      /\ cache'[reqs[i].identifier.v] = Written(t, now)
                 /\ done'.route = "api" /\ done'.fetches = 1
                 /\ reqs' = RemoveAt(reqs, i)]_vars

\* C30 witness: acme's entry was just written by a request the backend
\* answered, while a second request for acme, which had missed before the
\* write, is still awaiting its own answer
C30_Witness ==
    /\ mode = "lazy" /\ now = 0
    /\ done.route = "api" /\ done.identifier = Str("acme") /\ done.fetches = 1
    /\ "acme" \in DOMAIN cache
    /\ Len(reqs) = 1 /\ reqs[1].identifier = Str("acme") /\ reqs[1].fetches = 1

\* C31: a sweep tick leaves exactly the entries whose expiration has not
\* passed at the time of the tick, each as it was: it removes no entry that
\* has not expired and leaves none that has; and outside lazy mode no sweep
\* timer exists, so no sweep runs.
C31_SweepRemovesExactlyExpired ==
    /\ [](mode # "lazy" => timers = {} /\ cleanupInterval = 0)
    /\ [][cleanupTick =>
            /\ mode = "lazy"
            /\ DOMAIN cache' = {k \in DOMAIN cache : ~Expired(cache[k], now)}
            /\ \A k \in DOMAIN cache' : cache'[k] = cache[k]
            /\ \A k \in DOMAIN cache' : ~Expired(cache'[k], now')]_vars

\* C31 witness: under lazy mode with a sweep timer, the entry that the latest
\* call on the cache set for acme at time 0 is gone once its expiration has
\* passed: a sweep removed it
C31_Witness ==
    /\ mode = "lazy" /\ timers # {} /\ now = 1 + Ttl
    /\ last.op = "set" /\ last.key = "acme" /\ last.at = 0
    /\ "acme" \notin DOMAIN cache

\* C32: under lazy mode every entry's expiration is the time of a set, not
\* later than the present, plus the ttl; the entry of the latest set, while
\* stored, expires at that set's time plus the ttl; a set gives its key the
\* expiration now + ttl whether or not the key had an entry; and a get, like
\* every step that is not a set on the key, leaves the expiration of each
\* entry that stays as it was.
C32_ExpirationIsSetTimePlusTtl ==
    /\ [](mode = "lazy" =>
            /\ \A k \in DOMAIN cache :
                 \E at \in 0 .. now : cache[k].expiresAt = Instant(at + Ttl)
            /\ (last.op = "set" /\ last.key \in DOMAIN cache) =>
                 cache[last.key].expiresAt = Instant(last.at + Ttl))
    /\ [][mode = "lazy" =>
            /\ \A key \in CacheKeys :
                 /\ get(key) =>
                      \A k \in DOMAIN cache' :
                          k \in DOMAIN cache /\ cache'[k] = cache[k]
                 /\ \A tenant \in Tenants :
                      set(key, tenant) => cache'[key].expiresAt = Instant(now + Ttl)
            /\ \A k \in DOMAIN cache' :
                 \/ k \in DOMAIN cache /\ cache'[k].expiresAt = cache[k].expiresAt
                 \/ \E tenant \in Tenants : set(k, tenant)]_vars

\* C32 witness: acme was set at time 0 and read at time 1: the get returned
\* the record and the entry still expires at 0 + ttl
C32_Witness ==
    /\ mode = "lazy" /\ now = 1
    /\ last.op = "get" /\ last.key = "acme" /\ last.ret = TenantAcme
    /\ cache["acme"] = CacheEntry(TenantAcme, Instant(0 + Ttl))

\* the not-found policy of the merge harness is 404 (also by default),
\* redirect or custom
RaisingOrCustom ==
    \/ mrg.action = Undef
    \/ Get(mrg.action, "type") \in {Str("404"), Str("redirect"), Str("custom")}

\* C33: when resolveTenant returned no tenant and the policy is 404, redirect
\* or custom, the hook ends with the per-request context and the client
\* payload exactly as it found them, and the merge handler has not run.
C33_NullTenantTouchesNoView ==
    (mrg.pc = "done" /\ ~Truthy(mrg.tenant) /\ RaisingOrCustom) =>
        /\ mrg.out.ctx = mrg.ctx
        /\ mrg.out.bag = mrg.bag
        /\ mrg.out.merges = 0

\* C33 witness: under the custom policy, with a per-request context and a
\* payload in place, the handler ran for a null tenant and both are as before
C33_Witness ==
    /\ mrg.pc = "done" /\ mrg.tenant = Null
    /\ Get(mrg.action, "type") = Str("custom") /\ mrg.out.handled
    /\ mrg.ctx # Undef /\ mrg.out.ctx = mrg.ctx
    /\ mrg.bag = BaseAppConfig /\ mrg.out.bag = BaseAppConfig
    /\ mrg.out.error = Undef

\* C34: the bulk request GET /<prefix>/cache is issued only by a deployment
\* whose resolution mode is gateway: under direct resolution none is ever
\* issued or awaited, whatever the cache mode.
C34_BulkFetchOnlyInGateway ==
    cfg.resolutionMode # "gateway" =>
        /\ init.fetches = 0 /\ init.pending = 0
        /\ boot.pc # "initializing"

\* C35: buildSsrContext and buildPublicConfig write to no object of the
\* cached tenant record: every object reachable from the record is after the
\* hook what it was before, so the record reads the same for every request
\* it is handed to, and each request's context refers to that same record.
C35_MergeNeverMutatesRecord ==
    /\ [](hp.pc = "cached" => HeapLoad(hp.heap, hp.tenant) = hp.record)
    /\ [][(\E ctx \in MergeContexts, config \in MergeBags :
               enrichWindowBagHit(ctx, config)) =>
            /\ \A a \in HeapReach(hp.heap, hp.tenant) : hp'.heap[a] = hp.heap[a]
            /\ HeapGet(hp'.heap, HeapGet(hp'.heap, hp'.req, "quvelContext"), "tenant")
                  = hp.tenant]_vars

\* C35 witness: the record, whose app section is annotated public as a
\* whole, has been handed to two requests; the client payload of the second
\* refers to the record's own app object, and the record reads as stored
C35_Witness ==
    /\ hp.pc = "cached" /\ hp.hits = 2
    /\ Get(Get(Get(hp.record, "config"), "__visibility"), "app") = Str("public")
    /\ LET shown == HeapGet(hp.heap, HeapGet(hp.heap, hp.bag, "__APP_CONFIG__"), "tenant")
           own == HeapGet(hp.heap, HeapGet(hp.heap, hp.tenant, "config"), "app")
       IN /\ own.t = "ref"
          /\ HeapGet(hp.heap, HeapGet(hp.heap, shown, "config"), "app") = own
    /\ HeapLoad(hp.heap, hp.tenant) = hp.record

\* C36: while the bulk request of boot's cache initialization is pending the
\* pre-render hook is not registered, no request is in flight and none has
\* completed; once the hook is registered no bulk request is pending, and
\* under a cache mode other than disabled initialize has returned.
C36_HookAfterInitialization ==
    /\ (boot.pc = "initializing" \/ init.pending > 0) =>
          /\ ~boot.hook
          /\ reqs = <<>> /\ done = NoneDone
    /\ (boot.hook \/ reqs # <<>> \/ done # NoneDone) =>
          /\ init.pending = 0
          /\ cfg.cacheMode # "disabled" => init.returned = 1

\* C36 witness: the preload of the gateway deployment has returned with
\* acme stored, the hook is registered, and a request was served from it
C36_Witness ==
    /\ cfg.cacheMode = "preload" /\ cfg.resolutionMode = "gateway"
    /\ boot.hook /\ init.fetches = 1 /\ init.returned = 1 /\ init.pending = 0
    /\ "acme" \in DOMAIN cache
    /\ done.route = "cache" /\ done.tenant = TenantAcme

\* C37: in a deployment whose enable flag is false, boot registers no hook,
\* the cache is never initialized (no bulk request, no sweep timer), and no
\* request is ever taken up or completed: nothing is extracted, read from
\* or written to the cache, fetched or merged.
C37_DisabledDoesNothing ==
    ~cfg.enabled =>
        /\ boot.pc \in {"new", "disabled", "destroyed"} /\ ~boot.hook
        /\ init = InitIdle
        /\ timers = {} /\ cleanupInterval = 0
        /\ cache = EmptyMap
        /\ reqs = <<>> /\ done = NoneDone

\* C37 witness: boot of the disabled deployment configured for preload has
\* returned without a hook and without a bulk request
C37_Witness ==
    /\ ~cfg.enabled /\ cfg.cacheMode = "preload"
    /\ boot.pc = "disabled" /\ ~boot.hook
    /\ init.fetches = 0


=============================================================================
